---- MODULE Spec2Model ----
(***************************************************************************)
(* Model of the Home Assistant discovery plugin of CarConnectivity          *)
(* (carconnectivity_plugins/mqtt_homeassistant/plugin.py).                  *)
(*                                                                          *)
(* The plugin state is the dedup cache homeassistant_discovery_hashes, the  *)
(* reference to the MQTT plugin and the registrations made by startup.     *)
(* The environment is the data model (garage, connectors, plugins), which   *)
(* delivers notifications, and the MQTT client, which delivers connect and  *)
(* message callbacks and records every publish, subscribe and _add_topic.   *)
(*                                                                          *)
(* All values are strings; None is the string "None".  A Python dict is an  *)
(* ordered sequence of <<key, value>> pairs (insertion order, overwrite in  *)
(* place), nested JSON below a component is flattened to dotted keys.       *)
(***************************************************************************)
EXTENDS Naturals, Sequences, FiniteSets, TLC

VARIABLES
    phase,                           \* "constructed", "started", "failed" (startup raised) or "stopped"
    mqtt_plugin,                     \* "None" or "set": self.mqtt_plugin
    callbacks,                       \* registrations made by startup
    healthy,                         \* self.healthy value
    homeassistant_discovery,         \* self.homeassistant_discovery
    homeassistant_prefix,            \* self.active_config['homeassistant_prefix']
    homeassistant_discovery_hashes,  \* the dedup cache: device id -> hash
    hooks,                           \* on-set hooks attached per vehicle to the climatization start-stop command
    garage,                          \* the vehicles of the data model
    connectors,                      \* the connectors of the data model
    plugins,                         \* the plugin registry of the data model
    pending,                         \* the notification in flight to the observer, or NoEvent
    connected,                       \* mqtt_client.is_connected()
    subscriptions,                   \* topics handed to mqtt_client.subscribe
    topics,                          \* topics handed to mqtt_client._add_topic
    lastDoc,                         \* per device id, the payload last handed to publish for its config topic
    op,                              \* the entry point that ran in the last step, with its inputs
    pubs,                            \* the publish calls of the last step, in order
    attempts,                        \* the discovery publish attempts of the last step, in order
    lastRender,                      \* per device id, the document, hash and force flag of its latest attempt
    replays,                         \* the derived publishes of the latest and the previous successful connect
                                     \* since the data model last changed
    lastPosition,                    \* per vehicle, the payload last handed to publish for the /attributes
                                     \* topic of its position, or None
    running                          \* per thread, the handler it is in and how far it has come

vars == <<phase, mqtt_plugin, callbacks, healthy, homeassistant_discovery, homeassistant_prefix,
          homeassistant_discovery_hashes, hooks, garage, connectors, plugins, pending,
          connected, subscriptions, topics, lastDoc, op, pubs, attempts, lastRender, replays,
          lastPosition, running>>

None == "None"

(***************************************************************************)
(* Bounds of the model.                                                     *)
(***************************************************************************)
\* The width of Python's hash(), scaled down: hashes are taken modulo HashMod.
HashMod == 3
\* Hooks attached to one command are counted up to MaxHooks.
MaxHooks == 2

(***************************************************************************)
(* Ordered dicts.                                                           *)
(***************************************************************************)
OdHas(d, k) == \E i \in 1..Len(d) : d[i][1] = k

OdGet(d, k) == d[CHOOSE i \in 1..Len(d) : d[i][1] = k][2]

OdPut(d, k, v) ==
    IF OdHas(d, k)
    THEN [i \in 1..Len(d) |-> IF d[i][1] = k THEN <<k, v>> ELSE d[i]]
    ELSE Append(d, <<k, v>>)

OdKeys(d) == [i \in 1..Len(d) |-> d[i][1]]

Range(s) == {s[i] : i \in 1..Len(s)}

(***************************************************************************)
(* The data model as the plugin reads it.  An attribute has an enabled      *)
(* flag, a value and a unit; ranged attributes also have minimum, maximum,  *)
(* precision and is_changeable.  Paths follow get_absolute_path().          *)
(***************************************************************************)
Attr(e, v, u) == [enabled |-> e, value |-> v, unit |-> u]

\* a variant of the guard that does not look at the enabled flag
PresentIgnoringEnabled(a) == a.value # None

Present(a) == a.enabled /\ a.value # None

PresentWithUnit(a) == a.enabled /\ a.value # None /\ a.unit # None

\* mqtt_client.prefix of the MQTT plugin
MqttPrefix == "carconnectivity/0"

\* mqtt_client.prefix.replace('/', '-')
car_connectivity_id == "carconnectivity-0"

\* prefix + get_absolute_path() of an element below the vehicle vin
Topic(vin, rel) == MqttPrefix \o "/garage/" \o vin \o "/" \o rel

WriteTopic(vin, rel) == Topic(vin, rel) \o "_writetopic"

\* prefix + mqtt_plugin.connection_state.get_absolute_path()
AvailabilityTopic == MqttPrefix \o "/plugins/mqtt/connection_state"

\* [item.value for item in value_type], as one token per enumeration
Options(enum) == "[" \o enum \o ".values]"

(***************************************************************************)
(* discovery_message while it is assembled: device, origin, cmps, and err   *)
(* once a statement of the render has raised (KeyError, AttributeError);    *)
(* hooked counts the _add_on_set_hook calls of the render, and assigned     *)
(* lists the keys of the assignments discovery_message['cmps'][key] = {...}  *)
(* of the render in order.                                                  *)
(***************************************************************************)
NewMessage(device, origin) ==
    [device |-> device, origin |-> origin, cmps |-> <<>>, err |-> FALSE, hooked |-> 0,
     assigned |-> <<>>]

\* F applied to the value of v, which is evaluated once
Let(v, F(_)) == CHOOSE r \in {F(x) : x \in {v}} : TRUE

\* discovery_message['device'][k] = v
SetDevice(m0, k, v) ==
    Let(m0, LAMBDA m : IF m.err THEN m ELSE [m EXCEPT !.device = OdPut(@, k, v)])

\* discovery_message['cmps'][uid] = {...}
AddCmp(m0, uid, c) ==
    Let(m0, LAMBDA m : IF m.err THEN m
                       ELSE [m EXCEPT !.cmps = OdPut(@, uid, c), !.assigned = Append(@, uid)])

\* discovery_message['cmps'][uid][k] = v: a KeyError when uid is no key of cmps
SetField(m0, uid, k, v) ==
    Let(m0, LAMBDA m :
        IF m.err THEN m
        ELSE IF ~OdHas(m.cmps, uid) THEN [m EXCEPT !.err = TRUE]
        ELSE [m EXCEPT !.cmps = OdPut(@, uid, OdPut(OdGet(@, uid), k, v))])

\* a statement that raises
Raise(m) == [m EXCEPT !.err = TRUE]

\* if cond: body, where body is a function of the message so far
When(cond, m0, Body(_)) ==
    Let(m0, LAMBDA m : IF m.err \/ ~cond THEN m ELSE Body(m))

(***************************************************************************)
(* _publish_homeassistant_discovery_vehicle, lines 206-817: the render of   *)
(* one vehicle, one operator per block of the source, applied in order.     *)
(***************************************************************************)
VehicleHeader(veh) ==
    NewMessage(<< <<"ids", veh.vin>>, <<"sn", veh.vin>> >>,
               << <<"name", "carconnectivity-plugin-mqtt">>,
                  <<"sw", "__version__">>,
                  <<"url", "https://github.com/tillsteinbach/CarConnectivity-plugin-mqtt">> >>)

RenderDevice(m0, veh) ==
    LET m1 == When(Present(veh.name), m0, LAMBDA x1 : SetDevice(x1, "name", veh.name.value))
        m2 == When(Present(veh.manufacturer), m1, LAMBDA x1 : SetDevice(x1, "mf", veh.manufacturer.value))
        m3 == When(Present(veh.model), m2, LAMBDA x1 : SetDevice(x1, "mdl", veh.model.value))
        m4 == When(Present(veh.model_year), m3, LAMBDA x1 : SetDevice(x1, "hw", veh.model_year.value))
        m5 == When(veh.software.present /\ veh.software.enabled /\ Present(veh.software.version),
                   m4, LAMBDA x1 : SetDevice(x1, "sw", veh.software.version.value))
    IN m5

RenderWake(m, veh) ==
    When(veh.commands.enabled /\ "wake-sleep" \in veh.commands.commands, m,
         LAMBDA x1 : AddCmp(x1, veh.vin \o "_wake",
                << <<"p", "button">>, <<"name", "Wakeup">>, <<"icon", "mdi:sleep-off">>,
                   <<"command_topic", WriteTopic(veh.vin, "commands/wake-sleep")>>,
                   <<"payload_press", "wake">>,
                   <<"unique_id", veh.vin \o "_wake">> >>))

RenderOdometer(m, veh) ==
    When(PresentWithUnit(veh.odometer), m,
         LAMBDA x1 : AddCmp(x1, veh.vin \o "_odometer",
                << <<"p", "sensor">>, <<"device_class", "distance">>, <<"icon", "mdi:counter">>,
                   <<"name", "Odometer">>,
                   <<"state_topic", Topic(veh.vin, "odometer")>>,
                   <<"unit_of_measurement", veh.odometer.unit>>,
                   <<"unique_id", veh.vin \o "_odometer">> >>))

\* an enum sensor followed by its options (value_type is an Enum for every EnumAttribute)
EnumSensor(m, uid, icon, name, topic, enum) ==
    SetField(AddCmp(m, uid,
                    << <<"p", "sensor">>, <<"device_class", "enum">>, <<"icon", icon>>,
                       <<"name", name>>, <<"state_topic", topic>>, <<"unique_id", uid>> >>),
             uid, "options", Options(enum))

RenderState(m, veh) ==
    When(Present(veh.state), m,
         LAMBDA x1 : EnumSensor(x1, veh.vin \o "_state", "mdi:car-hatchback", "Vehicle State",
                    Topic(veh.vin, "state"), "GenericVehicle.State"))

RenderConnectionState(m, veh) ==
    When(Present(veh.connection_state), m,
         LAMBDA x1 : EnumSensor(x1, veh.vin \o "_connection_state", "mdi:car-connected", "Connection State",
                    Topic(veh.vin, "connection_state"), "GenericVehicle.ConnectionState"))

\* a sensor with a unit; cls is the device_class or None, icon the icon or None
UnitSensor(m, uid, cls, icon, name, topic, unit) ==
    AddCmp(m, uid,
           << <<"p", "sensor">> >>
           \o (IF cls = None THEN <<>> ELSE << <<"device_class", cls>> >>)
           \o (IF icon = None THEN <<>> ELSE << <<"icon", icon>> >>)
           \o << <<"name", name>>, <<"state_topic", topic>>,
                 <<"unit_of_measurement", unit>>, <<"unique_id", uid>> >>)

\* a binary sensor; cls is the device_class or None
BinarySensor(m, uid, cls, name, icon, topic, off, on) ==
    AddCmp(m, uid,
           << <<"p", "binary_sensor">> >>
           \o (IF cls = None THEN <<>> ELSE << <<"device_class", cls>> >>)
           \o << <<"name", name>>, <<"icon", icon>>, <<"state_topic", topic>>,
                 <<"payload_off", off>>, <<"payload_on", on>>, <<"unique_id", uid>> >>)

\* one drive of vehicle.drives.drives, lines 284-344; kind is the drive's class
RenderDrive(m0, veh, d) ==
    LET p  == "drives/" \o d.id \o "/"
        u  == veh.vin \o "_" \o d.id
        m1 == When(PresentWithUnit(d.range), m0,
                   LAMBDA x1 : UnitSensor(x1, u \o "_range", "distance", None, "Range (" \o d.id \o ")",
                              Topic(veh.vin, p \o "range"), d.range.unit))
        m2 == IF d.kind \in {"combustion", "diesel"}
              THEN LET c1 == When(PresentWithUnit(d.level), m1,
                                  LAMBDA x1 : UnitSensor(x1, u \o "_level", None, "mdi:gas-station",
                                             "Tank (" \o d.id \o ")",
                                             Topic(veh.vin, p \o "level"), d.level.unit))
                       c2 == When(d.kind = "diesel" /\ PresentWithUnit(d.adblue_level), c1,
                                  LAMBDA x1 : UnitSensor(x1, u \o "_adbluelevel", None, "mdi:gas-station",
                                             "AdBlue Tank (" \o d.id \o ")",
                                             Topic(veh.vin, p \o "adblue_level"), d.adblue_level.unit))
                       c3 == When(d.kind = "diesel" /\ PresentWithUnit(d.adblue_range), c2,
                                  LAMBDA x1 : UnitSensor(x1, u \o "_adbluerange", "distance", None,
                                             "AdBlue Range (" \o d.id \o ")",
                                             Topic(veh.vin, p \o "adblue_range"), d.adblue_range.unit))
                   IN c3
              ELSE IF d.kind = "electric"
              THEN LET e1 == When(PresentWithUnit(d.level), m1,
                                  LAMBDA x1 : UnitSensor(x1, u \o "_level", "battery", "mdi:battery",
                                             "SoC (" \o d.id \o ")",
                                             Topic(veh.vin, p \o "level"), d.level.unit))
                       e2 == When(d.battery.present /\ d.battery.enabled
                                    /\ PresentWithUnit(d.battery.temperature), e1,
                                  LAMBDA x1 : UnitSensor(x1, u \o "_battery_temperature", "temperature",
                                             "mdi:thermometer-lines",
                                             "Battery Temperature (" \o d.id \o ")",
                                             Topic(veh.vin, p \o "battery/temperature"),
                                             d.battery.temperature.unit))
                   IN e2
              ELSE m1
    IN m2

RECURSIVE RenderDriveItems(_, _, _)
RenderDriveItems(m, veh, ds) ==
    IF ds = <<>> THEN m
    ELSE RenderDriveItems(When(Head(ds).enabled, m, LAMBDA x1 : RenderDrive(x1, veh, Head(ds))), veh, Tail(ds))

RenderDrives(m0, veh) ==
    When(veh.drives.present /\ veh.drives.enabled, m0,
         LAMBDA x1 : LET m1 == When(PresentWithUnit(veh.drives.total_range), x1,
                        LAMBDA x2 : UnitSensor(x2, veh.vin \o "_total_range", "distance", None, "Total Range",
                                   Topic(veh.vin, "drives/total_range"), veh.drives.total_range.unit))
         IN RenderDriveItems(m1, veh, veh.drives.drives))

\* a variant that renders the binary sensor next to the lock entity
RenderLockStateTwice(m, veh) ==
    When(Present(veh.doors.lock_state), m,
         LAMBDA x1 :
             AddCmp(When("lock-unlock" \in veh.doors.commands.commands, x1,
                         LAMBDA x2 : AddCmp(x2, veh.vin \o "_lock_unlock",
                                            << <<"p", "lock">>, <<"name", "Lock/Unlock">>,
                                               <<"unique_id", veh.vin \o "_lock_unlock">> >>)),
                    veh.vin \o "_lock_state",
                    << <<"p", "binary_sensor">>, <<"device_class", "lock">>,
                       <<"name", "Lock State">>, <<"icon", "mdi:car-door-lock">>,
                       <<"state_topic", Topic(veh.vin, "doors/lock_state")>>,
                       <<"payload_on", "unlocked">>, <<"payload_off", "locked">>,
                       <<"unique_id", veh.vin \o "_lock_state">> >>))

\* 'lock-unlock' in vehicle.doors.commands.commands picks the lock entity, lines 357-382
RenderLockState(m, veh) ==
    When(Present(veh.doors.lock_state), m,
         LAMBDA x1 : IF "lock-unlock" \in veh.doors.commands.commands
         THEN AddCmp(x1, veh.vin \o "_lock_unlock",
                     << <<"p", "lock">>, <<"name", "Lock/Unlock">>, <<"icon", "mdi:car-door-lock">>,
                        <<"state_topic", Topic(veh.vin, "doors/lock_state")>>,
                        <<"command_topic", WriteTopic(veh.vin, "doors/commands/lock-unlock")>>,
                        <<"payload_lock", "lock">>, <<"payload_unlock", "unlock">>,
                        <<"state_locked", "locked">>, <<"state_unlocked", "unlocked">>,
                        <<"unique_id", veh.vin \o "_lock_unlock">> >>)
         ELSE AddCmp(x1, veh.vin \o "_lock_state",
                     << <<"p", "binary_sensor">>, <<"device_class", "lock">>,
                        <<"name", "Lock State">>, <<"icon", "mdi:car-door-lock">>,
                        <<"state_topic", Topic(veh.vin, "doors/lock_state")>>,
                        <<"payload_on", "unlocked">>, <<"payload_off", "locked">>,
                        <<"unique_id", veh.vin \o "_lock_state">> >>))

RenderDoor(m0, veh, d) ==
    LET p  == "doors/" \o d.id \o "/"
        u  == veh.vin \o "_" \o d.id
        m1 == When(Present(d.open_state) /\ d.open_state.value \notin {"unknown", "invalid", "unsupported"},
                   m0, LAMBDA x1 : BinarySensor(x1, u \o "_door_open_state", "door",
                                    "Door Open State (" \o d.id \o ")", "mdi:car-door",
                                    Topic(veh.vin, p \o "open_state"), "closed", "open"))
        m2 == When(Present(d.lock_state) /\ d.lock_state.value \notin {"unknown", "invalid"},
                   m1, LAMBDA x1 : AddCmp(x1, u \o "_door_lock_state",
                              << <<"p", "binary_sensor">>, <<"device_class", "lock">>,
                                 <<"name", "Lock State (" \o d.id \o ")">>,
                                 <<"icon", "mdi:car-door-lock">>,
                                 <<"state_topic", Topic(veh.vin, p \o "lock_state")>>,
                                 <<"payload_on", "unlocked">>, <<"payload_off", "locked">>,
                                 <<"unique_id", u \o "_door_lock_state">> >>))
    IN m2

RECURSIVE RenderDoorItems(_, _, _)
RenderDoorItems(m, veh, ds) ==
    IF ds = <<>> THEN m
    ELSE RenderDoorItems(When(Head(ds).enabled, m, LAMBDA x1 : RenderDoor(x1, veh, Head(ds))), veh, Tail(ds))

RenderDoors(m0, veh) ==
    When(veh.doors.present /\ veh.doors.enabled, m0,
         LAMBDA x1 : LET m1 == When(Present(veh.doors.open_state), x1,
                        LAMBDA x2 : BinarySensor(x2, veh.vin \o "_open_state", "door", "Door Open State",
                                     "mdi:car-door", Topic(veh.vin, "doors/open_state"),
                                     "closed", "open"))
             m2 == RenderLockState(m1, veh)
         IN RenderDoorItems(m2, veh, veh.doors.doors))

RECURSIVE RenderWindowItems(_, _, _)
RenderWindowItems(m, veh, ws) ==
    IF ws = <<>> THEN m
    ELSE LET w == Head(ws)
         IN RenderWindowItems(
                When(w.enabled /\ Present(w.open_state), m,
                     LAMBDA x1 : BinarySensor(x1, veh.vin \o "_" \o w.id \o "_window_open_state", "window",
                                  "Window Open State (" \o w.id \o ")", "mdi:window-open",
                                  Topic(veh.vin, "windows/" \o w.id \o "/open_state"),
                                  "closed", "open")),
                veh, Tail(ws))

RenderWindows(m0, veh) ==
    When(veh.windows.present /\ veh.windows.enabled, m0,
         LAMBDA x1 : LET m1 == When(Present(veh.windows.open_state), x1,
                        LAMBDA x2 : BinarySensor(x2, veh.vin \o "_window_open_state", "window",
                                     "Window Open State", "mdi:window-open",
                                     Topic(veh.vin, "windows/open_state"), "closed", "open"))
         IN RenderWindowItems(m1, veh, veh.windows.windows))

RECURSIVE RenderLightItems(_, _, _)
RenderLightItems(m, veh, ls) ==
    IF ls = <<>> THEN m
    ELSE LET l == Head(ls)
         IN RenderLightItems(
                When(l.enabled /\ Present(l.light_state), m,
                     LAMBDA x1 : BinarySensor(x1, veh.vin \o "_" \o l.id \o "_state", None,
                                  "Light State (" \o l.id \o ")", "mdi:car-light-dimmed",
                                  Topic(veh.vin, "lights/" \o l.id \o "/light_state"),
                                  "off", "on")),
                veh, Tail(ls))

RenderLights(m0, veh) ==
    When(veh.lights.present /\ veh.lights.enabled, m0,
         LAMBDA x1 : LET m1 == When(Present(veh.lights.light_state), x1,
                        LAMBDA x2 : BinarySensor(x2, veh.vin \o "_light_state", None, "Light State",
                                     "mdi:car-light-dimmed",
                                     Topic(veh.vin, "lights/light_state"), "off", "on"))
         IN RenderLightItems(m1, veh, veh.lights.lights))

\* one heated window, lines 484-496: the icon of a 'rear' window is set whether or
\* not its descriptor was created
RenderHeatedWindow(m0, veh, w) ==
    LET uid == veh.vin \o "_" \o w.id \o "_window_heating_state"
        m1  == When(Present(w.heating_state), m0,
                    LAMBDA x1 : BinarySensor(x1, uid, None, "Window Heating State (" \o w.id \o ")",
                                 "mdi:car-defrost-front",
                                 Topic(veh.vin, "window_heatings/" \o w.id \o "/heating_state"),
                                 "off", "on"))
        m2  == When(w.rear, m1, LAMBDA x1 : SetField(x1, uid, "icon", "mdi:car-defrost-rear"))
    IN m2

RECURSIVE RenderHeatedWindowItems(_, _, _)
RenderHeatedWindowItems(m, veh, ws) ==
    IF ws = <<>> THEN m
    ELSE RenderHeatedWindowItems(When(Head(ws).enabled, m, LAMBDA x1 : RenderHeatedWindow(x1, veh, Head(ws))),
                                 veh, Tail(ws))

RenderWindowHeatings(m0, veh) ==
    LET wh == veh.window_heatings
    IN When(wh.present /\ wh.enabled, m0,
            LAMBDA x1 : LET m1 == When(wh.commands.enabled /\ "start-stop" \in wh.commands.commands
                             /\ Present(wh.heating_state), x1,
                           LAMBDA x2 : AddCmp(x2, veh.vin \o "_window_heating_start_stop",
                                  << <<"p", "switch">>, <<"name", "Start/Stop Window Heating">>,
                                     <<"icon", "mdi:car-defrost-front">>,
                                     <<"state_topic", Topic(veh.vin, "window_heatings/heating_state")>>,
                                     <<"command_topic",
                                       WriteTopic(veh.vin, "window_heatings/commands/start-stop")>>,
                                     <<"payload_on", "start">>, <<"payload_off", "stop">>,
                                     <<"state_on", "on">>, <<"state_off", "off">>,
                                     <<"unique_id", veh.vin \o "_window_heating_start_stop">> >>))
                m2 == When(Present(wh.heating_state), m1,
                           LAMBDA x2 : BinarySensor(x2, veh.vin \o "_window_heating_state", None,
                                        "Window Heating State", "mdi:car-defrost-front",
                                        Topic(veh.vin, "window_heatings/heating_state"),
                                        "off", "on"))
            IN RenderHeatedWindowItems(m2, veh, wh.windows))

RenderPosition(m0, veh) ==
    LET pos == veh.position
    IN When(pos.enabled, m0,
            LAMBDA x1 : LET m1 == When(Present(pos.latitude) /\ Present(pos.longitude)
                             /\ pos.latitude.unit # None /\ pos.longitude.unit # None, x1,
                           LAMBDA x2 : AddCmp(AddCmp(x2, veh.vin \o "_latitude",
                                         << <<"p", "sensor">>, <<"name", "Position Latitude">>,
                                            <<"icon", "mdi:latitude">>,
                                            <<"state_topic", Topic(veh.vin, "position/latitude")>>,
                                            <<"unit_of_measurement", pos.latitude.unit>>,
                                            <<"unique_id", veh.vin \o "_latitude">> >>),
                                  veh.vin \o "_longitude",
                                  << <<"p", "sensor">>, <<"name", "Position Longitude">>,
                                     <<"icon", "mdi:longitude">>,
                                     <<"state_topic", Topic(veh.vin, "position/longitude")>>,
                                     <<"unit_of_measurement", pos.longitude.unit>>,
                                     <<"unique_id", veh.vin \o "_longitude">> >>))
                m2 == When(Present(pos.position_type), m1,
                           LAMBDA x2 : EnumSensor(x2, veh.vin \o "_position_type", "mdi:map-marker",
                                      "Position Type", Topic(veh.vin, "position/position_type"),
                                      "Position.PositionType"))
            IN m2)

\* lines 542-567: the climate entity; its render attaches __mode_to_command_hook
RenderClimatizationStartStop(m, veh) ==
    When(veh.climatization.commands.enabled /\ "start-stop" \in veh.climatization.commands.commands, m,
         LAMBDA x1 : AddCmp([x1 EXCEPT !.hooked = @ + 1], veh.vin \o "_climatization_start_stop",
                << <<"p", "climate">>, <<"name", "Start/Stop Climatization">>,
                   <<"icon", "mdi:air-conditioner">>,
                   <<"action_topic", Topic(veh.vin, "climatization") \o "/hvac_action">>,
                   <<"mode_command_topic", WriteTopic(veh.vin, "climatization/commands/start-stop")>>,
                   <<"mode_state_topic", Topic(veh.vin, "climatization") \o "/hvac_mode">>,
                   <<"modes", "[off, auto]">>,
                   <<"power_command_topic", WriteTopic(veh.vin, "climatization/commands/start-stop")>>,
                   <<"payload_on", "start">>, <<"payload_off", "stop">>,
                   <<"unique_id", veh.vin \o "_climatization_start_stop">> >>))

\* lines 568-585: the target temperature is merged into the climate entity
RenderTargetTemperature(m0, veh) ==
    LET tt  == veh.climatization.settings.target_temperature
        uid == veh.vin \o "_climatization_start_stop"
    IN When(veh.climatization.settings.enabled /\ tt.enabled, m0,
            LAMBDA x1 : LET m1 == When(tt.value # None, x1,
                           LAMBDA x2 : SetField(x2, uid, "temperature_state_topic",
                                    Topic(veh.vin, "climatization/settings/target_temperature")))
                m2 == When(tt.maximum # None, m1, LAMBDA x2 : SetField(x2, uid, "max_temp", tt.maximum))
                m3 == When(tt.minimum # None, m2, LAMBDA x2 : SetField(x2, uid, "min_temp", tt.minimum))
                m4 == When(tt.precision # None, m3, LAMBDA x2 : SetField(x2, uid, "temp_step", tt.precision))
                m5 == When(tt.is_changeable, m4,
                           LAMBDA x2 : SetField(x2, uid, "temperature_command_topic",
                                    WriteTopic(veh.vin, "climatization/settings/target_temperature")))
                m6 == When(tt.unit # None /\ tt.unit \in {"C", "F"}, m5,
                           LAMBDA x2 : SetField(x2, uid, "temperature_unit", tt.unit))
            IN m6)

RenderClimatization(m0, veh) ==
    LET cl == veh.climatization
    IN When(cl.enabled, m0,
            LAMBDA x1 : LET m1 == When(Present(cl.state), x1,
                           LAMBDA x2 : SetField(AddCmp(x2, veh.vin \o "_climatization_state",
                                           << <<"p", "sensor">>, <<"icon", "mdi:air-conditioner">>,
                                              <<"device_class", "enum">>,
                                              <<"name", "Climatization State">>,
                                              <<"state_topic", Topic(veh.vin, "climatization/state")>>,
                                              <<"unique_id", veh.vin \o "_climatization_state">> >>),
                                    veh.vin \o "_climatization_state", "options",
                                    Options("Climatization.ClimatizationState")))
                m2 == RenderClimatizationStartStop(m1, veh)
                m3 == RenderTargetTemperature(m2, veh)
                m4 == When(Present(cl.estimated_date_reached), m3,
                           LAMBDA x2 : AddCmp(x2, veh.vin \o "_climatization_estimated_date_reached",
                                  << <<"p", "sensor">>, <<"device_class", "timestamp">>,
                                     <<"icon", "mdi:clock-end">>,
                                     <<"name", "Climatization Estimated Date Reached">>,
                                     <<"state_topic", Topic(veh.vin, "climatization/estimated_date_reached")>>,
                                     <<"unique_id", veh.vin \o "_climatization_estimated_date_reached">> >>))
            IN m4)

RenderOutsideTemperature(m, veh) ==
    When(PresentWithUnit(veh.outside_temperature), m,
         LAMBDA x1 : UnitSensor(x1, veh.vin \o "_outside_temperature", "temperature",
                    "mdi:sun-thermometer-outline", "Outside Temperature",
                    Topic(veh.vin, "outside_temperature"), veh.outside_temperature.unit))

\* a timestamp sensor
TimestampSensor(m, uid, icon, name, topic) ==
    AddCmp(m, uid,
           << <<"p", "sensor">>, <<"device_class", "timestamp">>, <<"icon", icon>>,
              <<"name", name>>, <<"state_topic", topic>>, <<"unique_id", uid>> >>)

RenderMaintenance(m0, veh) ==
    LET mt == veh.maintenance
    IN When(mt.enabled, m0,
            LAMBDA x1 : LET m1 == When(Present(mt.inspection_due_at), x1,
                           LAMBDA x2 : TimestampSensor(x2, veh.vin \o "_inspection_due_at", "mdi:tools",
                                           "Inspection Due At",
                                           Topic(veh.vin, "maintenance/inspection_due_at")))
                m2 == When(PresentWithUnit(mt.inspection_due_after), m1,
                           LAMBDA x2 : UnitSensor(x2, veh.vin \o "_inspection_due_after", "distance", "mdi:tools",
                                      "Inspection Due After",
                                      Topic(veh.vin, "maintenance/inspection_due_after"),
                                      mt.inspection_due_after.unit))
                m3 == When(Present(mt.oil_service_due_at), m2,
                           LAMBDA x2 : TimestampSensor(x2, veh.vin \o "_oil_service_due_at", "mdi:oil",
                                           "Oil Service Due At",
                                           Topic(veh.vin, "maintenance/oil_service_due_at")))
                m4 == When(PresentWithUnit(mt.oil_service_due_after), m3,
                           LAMBDA x2 : UnitSensor(x2, veh.vin \o "_oil_service_due_after", "distance", "mdi:oil",
                                      "Oil Service Due After",
                                      Topic(veh.vin, "maintenance/oil_service_due_after"),
                                      mt.oil_service_due_after.unit))
            IN m4)

RECURSIVE RenderImageItems(_, _, _)
RenderImageItems(m, veh, is) ==
    IF is = <<>> THEN m
    ELSE LET i == Head(is)
         IN RenderImageItems(
                When(i.enabled /\ i.value # None, m,
                     LAMBDA x1 : AddCmp(x1, veh.vin \o "_" \o i.id \o "_image",
                            << <<"p", "image">>, <<"name", "Image (" \o i.id \o ")">>,
                               <<"image_topic", Topic(veh.vin, "images/" \o i.id)>>,
                               <<"content_type", "image/png">>,
                               <<"unique_id", veh.vin \o "_" \o i.id \o "_image">> >>)),
                veh, Tail(is))

\* SUPPORT_IMAGES and mqtt_client.image_format == ImageFormat.PNG
ImagesSupported == TRUE

RenderImages(m, veh) ==
    When(ImagesSupported /\ veh.images.enabled, m, LAMBDA x1 : RenderImageItems(x1, veh, veh.images.images))

\* a number entity of a ranged attribute, lines 761-788: unit.value is read without
\* a guard and raises AttributeError when the unit is None
NumberEntity(m, uid, cls, icon, name, vin, rel, a) ==
    IF a.unit = None THEN Raise(m)
    ELSE AddCmp(m, uid,
                << <<"p", "number">>, <<"device_class", cls>>, <<"icon", icon>>, <<"name", name>>,
                   <<"command_topic", WriteTopic(vin, rel)>>, <<"state_topic", Topic(vin, rel)>>,
                   <<"min", a.minimum>>, <<"max", a.maximum>>, <<"step", a.precision>>,
                   <<"unit_of_measurement", a.unit>>, <<"unique_id", uid>> >>)

RenderChargingConnector(m0, veh) ==
    LET ch == veh.charging
        m1 == When(Present(ch.connector.connection_state), m0,
                   LAMBDA x1 : LET s1 == When(ch.commands.enabled /\ "start-stop" \in ch.commands.commands
                                    /\ Present(ch.state), x1,
                                  LAMBDA x2 : AddCmp(x2, veh.vin \o "_charging_start_stop",
                                         << <<"p", "switch">>, <<"name", "Start/Stop Charging">>,
                                            <<"icon", "mdi:ev-station">>,
                                            <<"state_topic", Topic(veh.vin, "charging") \o "/binarystate">>,
                                            <<"command_topic",
                                              WriteTopic(veh.vin, "charging/commands/start-stop")>>,
                                            <<"payload_on", "start">>, <<"payload_off", "stop">>,
                                            <<"state_on", "on">>, <<"state_off", "off">>,
                                            <<"unique_id", veh.vin \o "_charging_start_stop">> >>))
                   IN EnumSensor(s1, veh.vin \o "_charging_connector_state", "mdi:ev-station",
                                 "Charging Connector State",
                                 Topic(veh.vin, "charging/connector/connection_state"),
                                 "ChargingConnector.ChargingConnectorConnectionState"))
        m2 == When(Present(ch.connector.lock_state), m1,
                   LAMBDA x1 : AddCmp(x1, veh.vin \o "_charging_connector_lock_state",
                          << <<"p", "binary_sensor">>, <<"device_class", "lock">>, <<"icon", "mdi:lock">>,
                             <<"name", "Charging Connector Lock State">>,
                             <<"state_topic", Topic(veh.vin, "charging/connector/lock_state")>>,
                             <<"payload_on", "unlocked">>, <<"payload_off", "locked">>,
                             <<"unique_id", veh.vin \o "_charging_connector_lock_state">> >>))
        m3 == When(Present(ch.connector.external_power), m2,
                   LAMBDA x1 : EnumSensor(x1, veh.vin \o "_charging_connector_external_power", "mdi:lightning-bolt",
                              "Charging Connector External Power",
                              Topic(veh.vin, "charging/connector/external_power"),
                              "ChargingConnector.ExternalPower"))
    IN m3

RenderChargingSettings(m0, veh) ==
    LET st == veh.charging.settings
    IN When(st.present, m0,
            LAMBDA x1 : LET m1 == When(Present(st.target_level), x1,
                           LAMBDA x2 : NumberEntity(x2, veh.vin \o "_charging_target_level", "battery", "mdi:battery",
                                        "Charging Target Level", veh.vin,
                                        "charging/settings/target_level", st.target_level))
                m2 == When(Present(st.maximum_current), m1,
                           LAMBDA x2 : NumberEntity(x2, veh.vin \o "_charging_maximum_current", "power",
                                        "mdi:speedometer", "Charging Maximum Current", veh.vin,
                                        "charging/settings/maximum_current", st.maximum_current))
                m3 == When(Present(st.auto_unlock), m2,
                           LAMBDA x2 : AddCmp(x2, veh.vin \o "_charging_auto_unlock",
                                  << <<"p", "switch">>, <<"name", "Auto unlock charging connector">>,
                                     <<"icon", "mdi:lock">>,
                                     <<"state_topic", Topic(veh.vin, "charging/settings/auto_unlock")>>,
                                     <<"command_topic", WriteTopic(veh.vin, "charging/settings/auto_unlock")>>,
                                     <<"payload_on", "true">>, <<"payload_off", "false">>,
                                     <<"state_on", "true">>, <<"state_off", "false">>,
                                     <<"unique_id", veh.vin \o "_charging_auto_unlock">> >>))
            IN m3)

\* isinstance(vehicle, ElectricVehicle), lines 657-801
RenderCharging(m0, veh) ==
    LET ch == veh.charging
    IN When(veh.electric, m0,
            LAMBDA x1 : LET m1 == RenderChargingConnector(x1, veh)
                m2 == When(Present(ch.state), m1,
                           LAMBDA x2 : EnumSensor(x2, veh.vin \o "_charging_state", "mdi:battery-charging",
                                      "Charging State", Topic(veh.vin, "charging/state"),
                                      "Charging.ChargingState"))
                m3 == When(Present(ch.type), m2,
                           LAMBDA x2 : EnumSensor(x2, veh.vin \o "_charging_type", "mdi:current-ac",
                                      "Charging Type", Topic(veh.vin, "charging/type"),
                                      "Charging.ChargingType"))
                m4 == When(PresentWithUnit(ch.rate), m3,
                           LAMBDA x2 : UnitSensor(x2, veh.vin \o "_charging_rate", "speed", "mdi:speedometer",
                                      "Charging Rate", Topic(veh.vin, "charging/rate"), ch.rate.unit))
                m5 == When(PresentWithUnit(ch.power), m4,
                           LAMBDA x2 : UnitSensor(x2, veh.vin \o "_charging_power", "power", "mdi:speedometer",
                                      "Charging Power", Topic(veh.vin, "charging/power"), ch.power.unit))
                m6 == When(Present(ch.estimated_date_reached), m5,
                           LAMBDA x2 : TimestampSensor(x2, veh.vin \o "_charging_estimated_date_reached",
                                           "mdi:clock-end", "Charging Estimated Date Reached",
                                           Topic(veh.vin, "charging/estimated_date_reached")))
            IN RenderChargingSettings(m6, veh))

\* lines 802-811: the device tracker reads the derived /attributes topic
RenderTracker(m, veh) ==
    When(veh.position.enabled /\ Present(veh.position.latitude) /\ Present(veh.position.longitude), m,
         LAMBDA x1 : AddCmp(x1, veh.vin \o "_position",
                << <<"p", "device_tracker">>, <<"icon", "mdi:map-marker">>, <<"name", "Position">>,
                   <<"json_attributes_topic", Topic(veh.vin, "position") \o "/attributes">>,
                   <<"source_type", "gps">>,
                   <<"unique_id", veh.vin \o "_position">> >>))

\* a variant with the two payloads the other way round
WithAvailabilitySwapped(c) ==
    OdPut(OdPut(OdPut(c, "availability.topic", AvailabilityTopic),
                "availability.payload_not_available", "connected"),
          "availability.payload_available", "disconnected")

\* sensor['availability'] = [{topic, payload_not_available, payload_available}]
WithAvailability(c) ==
    OdPut(OdPut(OdPut(c, "availability.topic", AvailabilityTopic),
                "availability.payload_not_available", "disconnected"),
          "availability.payload_available", "connected")

\* for sensor in discovery_message['cmps'].values(): sensor['availability'] = ...
AddAvailability(m0) ==
    Let(m0, LAMBDA m :
        IF m.err THEN m
        ELSE [m EXCEPT !.cmps = [i \in 1..Len(@) |-> <<@[i][1], WithAvailability(@[i][2])>>]])

\* the discovery_message of a vehicle: lines 206-817 in order
RenderVehicle(veh) ==
    LET m1  == RenderDevice(VehicleHeader(veh), veh)
        m2  == RenderWake(m1, veh)
        m3  == RenderOdometer(m2, veh)
        m4  == RenderState(m3, veh)
        m5  == RenderConnectionState(m4, veh)
        m6  == RenderDrives(m5, veh)
        m7  == RenderDoors(m6, veh)
        m8  == RenderWindows(m7, veh)
        m9  == RenderLights(m8, veh)
        m10 == RenderWindowHeatings(m9, veh)
        m11 == RenderPosition(m10, veh)
        m12 == RenderClimatization(m11, veh)
        m13 == RenderOutsideTemperature(m12, veh)
        m14 == RenderMaintenance(m13, veh)
        m15 == RenderImages(m14, veh)
        m16 == RenderCharging(m15, veh)
        m17 == RenderTracker(m16, veh)
    IN AddAvailability(m17)

(***************************************************************************)
(* _publish_homeassistant_discovery, lines 105-183: the render of the       *)
(* system device from the connectors and the plugins.  kind is "connectors" *)
(* or "plugins", label the name suffix of the connection-state sensor.      *)
(***************************************************************************)
SystemHeader ==
    NewMessage(<< <<"ids", car_connectivity_id>>, <<"name", "CarConnectivity">>,
                  <<"mf", "Till Steinbach and the CarConnectivity Community">>,
                  <<"sw", "__carconnectivity_version__">> >>,
               << <<"name", "CarConnectivity">>, <<"sw", "__version__">>,
                  <<"url", "https://github.com/tillsteinbach/CarConnectivity">> >>)

RenderMember(m0, kind, label, c) ==
    LET u  == car_connectivity_id \o "_" \o c.id
        p  == MqttPrefix \o "/" \o kind \o "/" \o c.id \o "/"
        m1 == When(Present(c.healthy), m0,
                   LAMBDA x1 : AddCmp(x1, u \o "_healthy",
                          << <<"p", "binary_sensor">>, <<"device_class", "running">>,
                             <<"name", c.name \o " Healthy">>, <<"icon", "mdi:check">>,
                             <<"state_topic", p \o "healthy">>,
                             <<"payload_off", "False">>, <<"payload_on", "True">>,
                             <<"unique_id", u \o "_healthy">> >>))
        \* for child in children: child.id == 'connection_state' and EnumAttribute and enabled
        m2 == When(c.connection_state.present /\ c.connection_state.enabled, m1,
                   LAMBDA x1 : SetField(AddCmp(x1, u \o "_connection_state",
                                   << <<"p", "sensor">>, <<"device_class", "enum">>,
                                      <<"name", c.name \o label>>, <<"icon", "mdi:lan-connect">>,
                                      <<"state_topic", p \o "connection_state">>,
                                      <<"payload_off", "False">>, <<"payload_on", "True">>,
                                      <<"unique_id", u \o "_connection_state">> >>),
                            u \o "_connection_state", "options", Options("ConnectionState")))
    IN m2

RECURSIVE RenderMembers(_, _, _, _)
RenderMembers(m, kind, label, cs) ==
    IF cs = <<>> THEN m
    ELSE RenderMembers(When(Head(cs).enabled, m, LAMBDA x1 : RenderMember(x1, kind, label, Head(cs))),
                       kind, label, Tail(cs))

RenderSystem(conns, plugs) ==
    AddAvailability(RenderMembers(RenderMembers(SystemHeader, "connectors", " Connection State", conns),
                                  "plugins", " Connected", plugs))

(***************************************************************************)
(* json.dumps and hash.  The serialized form is the sequence of the tokens  *)
(* of the document in document order.  Python's hash() is a keyed 64-bit    *)
(* function of the string, equal on equal strings and many-to-one; it is    *)
(* modelled by the length of the serialized form modulo HashMod.            *)
(***************************************************************************)
RECURSIVE DumpCmps(_)
DumpCmps(cmps) ==
    IF cmps = <<>> THEN <<>>
    ELSE << <<"cmps", Head(cmps)[1]>> >> \o Head(cmps)[2] \o DumpCmps(Tail(cmps))

\* json.dumps(discovery_message)
Dumps(m) == << <<"device", "{">> >> \o m.device \o << <<"origin", "{">> >> \o m.origin \o DumpCmps(m.cmps)

\* the number of characters of the tokens lo..hi of s
RECURSIVE SumLen(_, _, _)
SumLen(s, lo, hi) ==
    IF lo > hi THEN 0
    ELSE IF lo = hi THEN Len(s[lo][1]) + Len(s[lo][2])
    ELSE SumLen(s, lo, (lo + hi) \div 2) + SumLen(s, ((lo + hi) \div 2) + 1, hi)

StrLen(s0) == Let(s0, LAMBDA s : SumLen(s, 1, Len(s)))

\* hash(s)
PyHash(s) == StrLen(s) % HashMod

\* the payload of a discovery publish: json.dumps(discovery_message, indent=4)
Document(m) == [device |-> m.device, origin |-> m.origin, cmps |-> m.cmps]

\* no document
NoDoc == [device |-> <<>>, origin |-> <<>>, cmps |-> <<>>]

(***************************************************************************)
(* The run of one entry point.  A run threads the record r through the      *)
(* statements of the handler: the cache, the hooks, what the MQTT client    *)
(* was handed, and raised once an exception has left a statement (the rest  *)
(* of the handler is then skipped).                                         *)
(***************************************************************************)
BeginRun ==
    [hashes |-> homeassistant_discovery_hashes, hooks |-> hooks, subs |-> subscriptions,
     topics |-> topics, is_connected |-> connected, lastDoc |-> lastDoc,
     lastRender |-> lastRender, pubs |-> <<>>, attempts |-> <<>>, raised |-> FALSE,
     added |-> {}]

\* mqtt_client.publish(topic, qos=1, retain=False, payload); registered tells whether
\* the run has handed the topic to _add_topic before
Publish(r0, topic, payload, doc) ==
    Let(r0, LAMBDA r :
        [r EXCEPT !.pubs = Append(@, [topic |-> topic, payload |-> payload, doc |-> doc,
                                      registered |-> topic \in r.added])])

\* variants of the publish condition that the properties below tell apart from it:
\* one that never skips, one that only looks for a cache entry, one that ignores force
ShouldPublishAlways(cache, key, discovery_hash, force) == TRUE

ShouldPublishUnlessCached(cache, key, discovery_hash, force) == key \notin DOMAIN cache \/ force

ShouldPublishIgnoringForce(cache, key, discovery_hash, force) ==
    key \notin DOMAIN cache \/ cache[key] # discovery_hash

\* a variant that compares with the document published last for the device
ShouldPublishLastDocument(cache, key, discovery_hash, force) ==
    key \notin DOMAIN lastDoc \/ PyHash(Dumps(lastDoc[key])) # discovery_hash \/ force

\* the condition of lines 819-820 and 185-186
ShouldPublish(cache, key, discovery_hash, force) ==
    key \notin DOMAIN cache \/ cache[key] # discovery_hash \/ force

\* a variant that leaves the cache as it is
StoreHashDropped(cache, key, discovery_hash) == cache

\* lines 821 and 187: self.homeassistant_discovery_hashes[key] = discovery_hash
StoreHash(cache, key, discovery_hash) == (key :> discovery_hash) @@ cache

\* no cache entry: a value hash() does not return here
NoHash == HashMod

\* one discovery publish attempt as the history keeps it
Attempt(r, key, doc, discovery_hash, force, publish) ==
    [device |-> key, doc |-> doc, force |-> force,
     cached |-> key \in DOMAIN r.hashes,
     cachedHash |-> IF key \in DOMAIN r.hashes THEN r.hashes[key] ELSE NoHash,
     prev |-> IF key \in DOMAIN r.lastRender THEN r.lastRender[key]
              ELSE [doc |-> NoDoc, hash |-> NoHash, force |-> FALSE],
     hash |-> discovery_hash, published |-> publish]

\* a variant that leaves the cache alone when the publish is forced
HashAndPublishForcedUncached(r0, key, topic, doc, discovery_hash, force) ==
    Let(r0, LAMBDA r :
        Let(ShouldPublish(r.hashes, key, discovery_hash, force), LAMBDA publish :
            Let([r EXCEPT !.attempts = Append(@, Attempt(r, key, doc, discovery_hash, force, publish)),
                          !.lastRender = (key :> [doc |-> doc, hash |-> discovery_hash,
                                                  force |-> force]) @@ @],
                LAMBDA r1 :
                IF publish
                THEN Publish([r1 EXCEPT !.hashes = IF force /\ key \in DOMAIN @ THEN @
                                                   ELSE StoreHash(@, key, discovery_hash),
                                        !.lastDoc = (key :> doc) @@ @],
                             topic, "json.dumps(discovery_message, indent=4)", doc)
                ELSE r1)))

\* a variant that stores the hash and hands nothing to the MQTT client
HashAndPublishUnsent(r0, key, topic, doc, discovery_hash, force) ==
    Let(r0, LAMBDA r :
        Let(ShouldPublish(r.hashes, key, discovery_hash, force), LAMBDA publish :
            Let([r EXCEPT !.attempts = Append(@, Attempt(r, key, doc, discovery_hash, force, publish)),
                          !.lastRender = (key :> [doc |-> doc, hash |-> discovery_hash,
                                                  force |-> force]) @@ @],
                LAMBDA r1 :
                IF publish
                THEN [r1 EXCEPT !.hashes = StoreHash(@, key, discovery_hash),
                                !.lastDoc = (key :> doc) @@ @]
                ELSE r1)))

\* lines 818-823 and 184-189: hash, compare, store, publish
HashAndPublish(r0, key, topic, doc, discovery_hash, force) ==
    Let(r0, LAMBDA r :
        Let(ShouldPublish(r.hashes, key, discovery_hash, force), LAMBDA publish :
            Let([r EXCEPT !.attempts = Append(@, Attempt(r, key, doc, discovery_hash, force, publish)),
                          !.lastRender = (key :> [doc |-> doc, hash |-> discovery_hash,
                                                  force |-> force]) @@ @],
                LAMBDA r1 :
                IF publish
                THEN Publish([r1 EXCEPT !.hashes = StoreHash(@, key, discovery_hash),
                                        !.lastDoc = (key :> doc) @@ @],
                             topic, "json.dumps(discovery_message, indent=4)", doc)
                ELSE r1)))

\* lines 206-823 once the guards of lines 199-205 have passed
RenderAndPublishVehicle(r, vid, veh, force) ==
    Let(RenderVehicle(veh), LAMBDA m :
        Let([r EXCEPT !.hooks[vid] = @ + m.hooked], LAMBDA r1 :
            IF m.err THEN [r1 EXCEPT !.raised = TRUE]
            ELSE HashAndPublish(r1, veh.vin,
                                homeassistant_prefix \o "/device/" \o veh.vin \o "/config",
                                Document(m), PyHash(Dumps(m)), force)))

\* a variant that passes over a vehicle without a VIN
publish_homeassistant_discovery_vehicle_with_vin(r0, vid, force) ==
    Let(r0, LAMBDA r :
        IF r.raised THEN r
        ELSE IF mqtt_plugin = None THEN [r EXCEPT !.raised = TRUE]
        ELSE IF garage[vid].vin = None THEN r
        ELSE IF ~r.is_connected THEN r
        ELSE RenderAndPublishVehicle(r, vid, garage[vid], force))

\* a variant that renders whether or not the client is connected
publish_homeassistant_discovery_vehicle_offline(r0, vid, force) ==
    Let(r0, LAMBDA r :
        IF r.raised THEN r
        ELSE IF mqtt_plugin = None THEN [r EXCEPT !.raised = TRUE]
        ELSE IF garage[vid].vin = None THEN [r EXCEPT !.raised = TRUE]
        ELSE RenderAndPublishVehicle(r, vid, garage[vid], force))

\* _publish_homeassistant_discovery_vehicle(vehicle, force), lines 192-823
publish_homeassistant_discovery_vehicle(r0, vid, force) ==
    Let(r0, LAMBDA r :
        IF r.raised THEN r
        ELSE IF mqtt_plugin = None THEN [r EXCEPT !.raised = TRUE]
        ELSE IF garage[vid].vin = None THEN [r EXCEPT !.raised = TRUE]
        ELSE IF ~r.is_connected THEN r
        ELSE RenderAndPublishVehicle(r, vid, garage[vid], force))

\* garage.list_vehicles()
VehicleOrder == <<"v1", "v2">>

\* lines 100-102
RECURSIVE PublishVehicles(_, _, _)
PublishVehicles(r, vids, force) ==
    IF vids = <<>> THEN r
    ELSE PublishVehicles(IF garage[Head(vids)].enabled
                         THEN publish_homeassistant_discovery_vehicle(r, Head(vids), force)
                         ELSE r,
                         Tail(vids), force)

\* lines 103-189 once the vehicles are done
PublishSystem(r0, force) ==
    Let(r0, LAMBDA r :
        IF r.raised THEN r
        ELSE IF mqtt_plugin = None THEN [r EXCEPT !.raised = TRUE]
        ELSE Let(RenderSystem(connectors, plugins), LAMBDA m :
                 HashAndPublish(r, car_connectivity_id,
                                homeassistant_prefix \o "/device/carconnectivity-"
                                    \o car_connectivity_id \o "/config",
                                Document(m), PyHash(Dumps(m)), force)))

\* _publish_homeassistant_discovery(force), lines 99-189
publish_homeassistant_discovery(r, force) ==
    PublishSystem(PublishVehicles(r, VehicleOrder, force), force)

(***************************************************************************)
(* The derived-state publishers, lines 825-894.                             *)
(***************************************************************************)
\* mqtt_client._add_topic(topic, with_filter=True, subscribe=False, writeable=False)
AddTopic(r0, topic) ==
    Let(r0, LAMBDA r :
        [r EXCEPT !.topics = @ \cup {[topic |-> topic, with_filter |-> TRUE,
                                      subscribe |-> FALSE, writeable |-> FALSE]},
                  !.added = @ \cup {topic}])

\* Charging.ChargingState and Climatization.ClimatizationState
ChargingState ==
    {"off", "ready_for_charging", "charging", "conservation", "discharging", "error",
     "unsupported", "unknown"}

ClimatizationState == {"off", "heating", "cooling", "ventilation", "invalid", "unknown"}

\* json.dumps({'latitude': ..., 'longitude': ...})
PositionPayload(lat, lon) == "{latitude: " \o lat \o ", longitude: " \o lon \o "}"

\* a variant that looks at the longitude only
send_position_extra_targets_on_longitude(r0, vid) ==
    Let(r0, LAMBDA r :
        LET pos == garage[vid].position
            topic == Topic(garage[vid].vin, "position") \o "/attributes"
        IN IF r.raised \/ mqtt_plugin = None THEN r
           ELSE IF Present(pos.longitude)
           THEN Publish(AddTopic(r, topic), topic,
                        PositionPayload(pos.latitude.value, pos.longitude.value), NoDoc)
           ELSE r)

\* __send_position_extra_targets(position), lines 825-837
send_position_extra_targets(r0, vid) ==
    Let(r0, LAMBDA r :
        LET pos == garage[vid].position
            topic == Topic(garage[vid].vin, "position") \o "/attributes"
        IN IF r.raised \/ mqtt_plugin = None THEN r
           ELSE IF Present(pos.latitude) /\ Present(pos.longitude)
           THEN Publish(AddTopic(r, topic), topic,
                        PositionPayload(pos.latitude.value, pos.longitude.value), NoDoc)
           ELSE r)

\* a variant of the mapping that counts discharging as not charging
ChargingBinaryPayloadWithoutDischarging(value) ==
    IF value \in {"charging", "conservation"} THEN "on"
    ELSE IF value \in {"off", "ready_for_charging", "error", "discharging"} THEN "off"
    ELSE ""

\* lines 846-850
ChargingBinaryPayload(value) ==
    IF value \in {"charging", "conservation", "discharging"} THEN "on"
    ELSE IF value \in {"off", "ready_for_charging", "error"} THEN "off"
    ELSE ""

\* a variant that publishes before it registers the topic
send_charging_binary_state_unregistered(r0, vid) ==
    Let(r0, LAMBDA r :
        LET charging_state == garage[vid].charging.state
            topic == Topic(garage[vid].vin, "charging") \o "/binarystate"
        IN IF r.raised \/ mqtt_plugin = None THEN r
           ELSE IF Present(charging_state)
           THEN AddTopic(Publish(r, topic, ChargingBinaryPayload(charging_state.value), NoDoc), topic)
           ELSE r)

\* __send_charging_binary_state(charging_state), lines 839-851
send_charging_binary_state(r0, vid) ==
    Let(r0, LAMBDA r :
        LET charging_state == garage[vid].charging.state
            topic == Topic(garage[vid].vin, "charging") \o "/binarystate"
        IN IF r.raised \/ mqtt_plugin = None THEN r
           ELSE IF Present(charging_state)
           THEN Publish(AddTopic(r, topic), topic, ChargingBinaryPayload(charging_state.value), NoDoc)
           ELSE r)

\* lines 860-866
ClimatizationBinaryPayload(value) ==
    IF value \in {"heating", "cooling", "ventilation"} THEN "on"
    ELSE IF value \in {"off"} THEN "off"
    ELSE ""

\* __send_climatization_binary_state(climatization_state), lines 853-867
send_climatization_binary_state(r0, vid) ==
    Let(r0, LAMBDA r :
        LET climatization_state == garage[vid].climatization.state
            topic == Topic(garage[vid].vin, "climatization") \o "/binarystate"
        IN IF r.raised \/ mqtt_plugin = None THEN r
           ELSE IF Present(climatization_state)
           THEN Publish(AddTopic(r, topic), topic,
                        ClimatizationBinaryPayload(climatization_state.value), NoDoc)
           ELSE r)

\* a variant of the mapping that reports ventilation as cooling
HvacPayloadsWithoutFan(value) ==
    IF value = "heating" THEN <<"heating", "auto">>
    ELSE IF value \in {"cooling", "ventilation"} THEN <<"cooling", "auto">>
    ELSE IF value \in {"off"} THEN <<"off", "off">>
    ELSE <<"", "">>

\* lines 879-892: <<action_payload, mode_payload>>
HvacPayloads(value) ==
    IF value = "heating" THEN <<"heating", "auto">>
    ELSE IF value = "cooling" THEN <<"cooling", "auto">>
    ELSE IF value = "ventilation" THEN <<"fan", "auto">>
    ELSE IF value \in {"off"} THEN <<"off", "off">>
    ELSE <<"", "">>

\* a variant that publishes the HVAC mode only when it has a payload for it
send_climatization_hvac_action_first(r0, vid) ==
    Let(r0, LAMBDA r :
        LET climatization_state == garage[vid].climatization.state
            action_topic == Topic(garage[vid].vin, "climatization") \o "/hvac_action"
            mode_topic == Topic(garage[vid].vin, "climatization") \o "/hvac_mode"
            payloads == HvacPayloads(climatization_state.value)
        IN IF r.raised \/ mqtt_plugin = None THEN r
           ELSE IF Present(climatization_state)
           THEN IF payloads[2] = ""
                THEN Publish(AddTopic(r, action_topic), action_topic, payloads[1], NoDoc)
                ELSE Publish(Publish(AddTopic(AddTopic(r, action_topic), mode_topic),
                                     action_topic, payloads[1], NoDoc),
                             mode_topic, payloads[2], NoDoc)
           ELSE r)

\* __send_climatization_hvac_topics(climatization_state), lines 869-894
send_climatization_hvac_topics(r0, vid) ==
    Let(r0, LAMBDA r :
        LET climatization_state == garage[vid].climatization.state
            action_topic == Topic(garage[vid].vin, "climatization") \o "/hvac_action"
            mode_topic == Topic(garage[vid].vin, "climatization") \o "/hvac_mode"
            payloads == HvacPayloads(climatization_state.value)
        IN IF r.raised \/ mqtt_plugin = None THEN r
           ELSE IF Present(climatization_state)
           THEN Publish(Publish(AddTopic(AddTopic(r, action_topic), mode_topic),
                                action_topic, payloads[1], NoDoc),
                        mode_topic, payloads[2], NoDoc)
           ELSE r)

(***************************************************************************)
(* The entry points, lines 896-981.  An element of the data model is named  *)
(* by its vehicle and its path below the vehicle.                           *)
(***************************************************************************)
\* the attribute of vehicle veh at path id
GetAttr(veh, id) ==
    CASE id = "odometer" -> veh.odometer
      [] id = "state" -> veh.state
      [] id = "position/latitude" -> veh.position.latitude
      [] id = "position/longitude" -> veh.position.longitude
      [] id = "charging/state" -> veh.charging.state
      [] id = "climatization/state" -> veh.climatization.state

SetAttr(veh, id, a) ==
    CASE id = "odometer" -> [veh EXCEPT !.odometer = a]
      [] id = "state" -> [veh EXCEPT !.state = a]
      [] id = "position/latitude" -> [veh EXCEPT !.position.latitude = a]
      [] id = "position/longitude" -> [veh EXCEPT !.position.longitude = a]
      [] id = "charging/state" -> [veh EXCEPT !.charging.state = a]
      [] id = "climatization/state" -> [veh EXCEPT !.climatization.state = a]

\* lines 911-923: the derived topics of a notification
RouteDerived(r0, el) ==
    Let(r0, LAMBDA r :
        IF r.raised \/ mqtt_plugin = None THEN r
        ELSE IF el.id = "position/longitude" /\ garage[el.vid].position.longitude.value # None
        THEN send_position_extra_targets(r, el.vid)
        ELSE IF el.id = "charging/state"
        THEN send_charging_binary_state(r, el.vid)
        ELSE IF el.id = "climatization/state"
        THEN send_climatization_hvac_topics(send_climatization_binary_state(r, el.vid), el.vid)
        ELSE r)

\* a variant that renders the discovery on every notification
on_carconnectivity_event_rendering(r, el, flags) ==
    Let(publish_homeassistant_discovery(r, FALSE), LAMBDA r1 :
        IF flags \cap {"ENABLED", "VALUE_CHANGED"} # {} THEN RouteDerived(r1, el) ELSE r1)

\* _on_carconnectivity_event(element, flags), lines 896-923
on_carconnectivity_event(r, el, flags) ==
    Let(IF "ENABLED" \in flags THEN publish_homeassistant_discovery(r, FALSE) ELSE r, LAMBDA r1 :
        IF flags \cap {"ENABLED", "VALUE_CHANGED"} # {} THEN RouteDerived(r1, el) ELSE r1)

\* a variant of lower() that keeps the case
LowerKeepingCase(payload) == payload

\* msg.payload.lower()
Lower(payload) == IF payload \in {"ONLINE", "Online"} THEN "online" ELSE payload

\* the topic the message callback compares with, line 941
StatusTopic == homeassistant_prefix \o "/status"

\* _on_message_callback(mqttc, obj, msg), lines 925-943
on_message_callback(r, topic, payload) ==
    IF topic = StatusTopic /\ homeassistant_discovery /\ Lower(payload) = "online"
    THEN publish_homeassistant_discovery(r, TRUE)
    ELSE r

\* mqtt_client.subscribe(topic, qos=1)
Subscribe(r, topic) == [r EXCEPT !.subs = @ \cup {topic}]

\* a variant of the replay that publishes a derived topic only the first time
ReplayVehicleOnce(r0, vid) ==
    Let(r0, LAMBDA r :
        LET veh == garage[vid]
            topic == Topic(veh.vin, "charging") \o "/binarystate"
        IN IF veh.electric /\ Present(veh.charging.state)
               /\ ~(\E t \in r.topics : t.topic = topic)
           THEN send_charging_binary_state(r, vid) ELSE r)

\* lines 973-981: the derived topics of one vehicle after a connect
ReplayVehicle(r0, vid) ==
    Let(r0, LAMBDA r :
        LET veh == garage[vid]
            r1 == IF veh.position.enabled /\ Present(veh.position.latitude)
                       /\ Present(veh.position.longitude)
                  THEN send_position_extra_targets(r, vid) ELSE r
            r2 == IF veh.electric /\ Present(veh.charging.state)
                  THEN send_charging_binary_state(r1, vid) ELSE r1
            r3 == IF Present(veh.climatization.state)
                  THEN send_climatization_hvac_topics(send_climatization_binary_state(r2, vid), vid)
                  ELSE r2
        IN r3)

\* line 972
RECURSIVE ReplayVehicles(_, _)
ReplayVehicles(r0, vids) ==
    Let(r0, LAMBDA r :
        IF vids = <<>> \/ r.raised THEN r
        ELSE ReplayVehicles(IF garage[Head(vids)].enabled THEN ReplayVehicle(r, Head(vids)) ELSE r,
                            Tail(vids)))

\* a variant of the connect callback that publishes the discovery without force
on_connect_callback_unforced(r, reason_code) ==
    IF reason_code = 0
    THEN ReplayVehicles(publish_homeassistant_discovery(Subscribe(r, "homeassistant/status"), FALSE),
                        VehicleOrder)
    ELSE r

\* a variant of the connect callback that does not look at the reason code
on_connect_callback_any(r, reason_code) ==
    ReplayVehicles(IF homeassistant_discovery /\ mqtt_plugin # None
                   THEN publish_homeassistant_discovery(Subscribe(r, "homeassistant/status"), TRUE)
                   ELSE r,
                   VehicleOrder)

\* _on_connect_callback(mqttc, obj, flags, reason_code, properties), lines 946-981
on_connect_callback(r, reason_code) ==
    IF reason_code = 0
    THEN ReplayVehicles(IF homeassistant_discovery /\ mqtt_plugin # None
                        THEN publish_homeassistant_discovery(Subscribe(r, "homeassistant/status"), TRUE)
                        ELSE r,
                        VehicleOrder)
    ELSE r

(***************************************************************************)
(* The state after construction (lines 49-61) and the data model.           *)
(***************************************************************************)
Off == Attr(FALSE, None, None)

Ranged(e, v, u, lo, hi, step, changeable) ==
    [enabled |-> e, value |-> v, unit |-> u, minimum |-> lo, maximum |-> hi,
     precision |-> step, is_changeable |-> changeable]

NoCommands == [enabled |-> TRUE, commands |-> {}]

\* a vehicle none of whose attributes has been set yet
Vehicle(vin, electric) ==
    [enabled |-> TRUE, vin |-> vin, electric |-> electric,
     name |-> Off, manufacturer |-> Off, model |-> Off, model_year |-> Off,
     software |-> [present |-> TRUE, enabled |-> FALSE, version |-> Off],
     commands |-> NoCommands,
     odometer |-> Off, state |-> Off, connection_state |-> Off,
     drives |-> [present |-> TRUE, enabled |-> FALSE, total_range |-> Off, drives |-> <<>>],
     doors |-> [present |-> TRUE, enabled |-> FALSE, open_state |-> Off, lock_state |-> Off,
                commands |-> NoCommands, doors |-> <<>>],
     windows |-> [present |-> TRUE, enabled |-> FALSE, open_state |-> Off, windows |-> <<>>],
     lights |-> [present |-> TRUE, enabled |-> FALSE, light_state |-> Off, lights |-> <<>>],
     window_heatings |-> [present |-> TRUE, enabled |-> FALSE, heating_state |-> Off,
                          commands |-> NoCommands, windows |-> <<>>],
     position |-> [enabled |-> FALSE, latitude |-> Off, longitude |-> Off, position_type |-> Off],
     climatization |-> [enabled |-> FALSE, state |-> Off, commands |-> NoCommands,
                        settings |-> [enabled |-> FALSE,
                                      target_temperature |-> Ranged(FALSE, None, None, None, None, None, FALSE)],
                        estimated_date_reached |-> Off],
     outside_temperature |-> Off,
     maintenance |-> [enabled |-> FALSE, inspection_due_at |-> Off, inspection_due_after |-> Off,
                      oil_service_due_at |-> Off, oil_service_due_after |-> Off],
     images |-> [enabled |-> FALSE, images |-> <<>>],
     charging |-> [connector |-> [connection_state |-> Off, lock_state |-> Off, external_power |-> Off],
                   commands |-> NoCommands, state |-> Off, type |-> Off, rate |-> Off, power |-> Off,
                   estimated_date_reached |-> Off,
                   settings |-> [present |-> TRUE,
                                 target_level |-> Ranged(FALSE, None, None, None, None, None, FALSE),
                                 maximum_current |-> Ranged(FALSE, None, None, None, None, None, FALSE),
                                 auto_unlock |-> Off]]]

\* a connector or a plugin of the system device
Member(id, name, cls) ==
    [id |-> id, name |-> name, class |-> cls, enabled |-> TRUE,
     healthy |-> Attr(TRUE, "True", None),
     connection_state |-> [present |-> TRUE, enabled |-> TRUE, value |-> "connected"]]

\* an electric vehicle whose position, climatization and charging state are known
ElectricCar(vin) ==
    [Vehicle(vin, TRUE) EXCEPT
        !.name = Attr(TRUE, "My Car", None),
        !.odometer = Attr(TRUE, "12345", "km"),
        !.state = Attr(FALSE, "parked", None),
        !.position = [enabled |-> TRUE, latitude |-> Attr(TRUE, "52.1", "deg"),
                      longitude |-> Attr(TRUE, "8.5", "deg"), position_type |-> Off],
        !.climatization.enabled = TRUE,
        !.climatization.state = Attr(TRUE, "off", None),
        !.charging.state = Attr(TRUE, "charging", None)]

\* a combustion vehicle of which only the odometer is known
CombustionCar(vin) ==
    [Vehicle(vin, FALSE) EXCEPT !.odometer = Attr(FALSE, "777", "km")]

\* an electric vehicle every attribute of which is enabled and has a value, with one
\* electric and one diesel drive, one door, window, light, heated window and image,
\* and every command available
FullCar(vin) ==
    [Vehicle(vin, TRUE) EXCEPT
        !.name = Attr(TRUE, "My Car", None),
        !.commands = [enabled |-> TRUE, commands |-> {"wake-sleep"}],
        !.odometer = Attr(TRUE, "12345", "km"),
        !.state = Attr(TRUE, "parked", None),
        !.connection_state = Attr(TRUE, "online", None),
        !.drives = [present |-> TRUE, enabled |-> TRUE, total_range |-> Attr(TRUE, "700", "km"),
                    drives |-> << [id |-> "primary", enabled |-> TRUE, kind |-> "electric",
                                   range |-> Attr(TRUE, "300", "km"), level |-> Attr(TRUE, "80", "%"),
                                   adblue_level |-> Off, adblue_range |-> Off,
                                   battery |-> [present |-> TRUE, enabled |-> TRUE,
                                                temperature |-> Attr(TRUE, "20", "C")]],
                                  [id |-> "secondary", enabled |-> TRUE, kind |-> "diesel",
                                   range |-> Attr(TRUE, "400", "km"), level |-> Attr(TRUE, "50", "%"),
                                   adblue_level |-> Attr(TRUE, "90", "%"),
                                   adblue_range |-> Attr(TRUE, "9000", "km"),
                                   battery |-> [present |-> FALSE, enabled |-> FALSE,
                                                temperature |-> Off]] >>],
        !.doors = [present |-> TRUE, enabled |-> TRUE, open_state |-> Attr(TRUE, "closed", None),
                   lock_state |-> Attr(TRUE, "locked", None),
                   commands |-> [enabled |-> TRUE, commands |-> {"lock-unlock"}],
                   doors |-> << [id |-> "front_left", enabled |-> TRUE,
                                 open_state |-> Attr(TRUE, "closed", None),
                                 lock_state |-> Attr(TRUE, "locked", None)] >>],
        !.windows = [present |-> TRUE, enabled |-> TRUE, open_state |-> Attr(TRUE, "closed", None),
                     windows |-> << [id |-> "front_left", enabled |-> TRUE,
                                     open_state |-> Attr(TRUE, "closed", None)] >>],
        !.lights = [present |-> TRUE, enabled |-> TRUE, light_state |-> Attr(TRUE, "off", None),
                    lights |-> << [id |-> "left", enabled |-> TRUE,
                                   light_state |-> Attr(TRUE, "off", None)] >>],
        !.window_heatings = [present |-> TRUE, enabled |-> TRUE,
                             heating_state |-> Attr(TRUE, "off", None),
                             commands |-> [enabled |-> TRUE, commands |-> {"start-stop"}],
                             windows |-> << [id |-> "front", enabled |-> TRUE, rear |-> FALSE,
                                             heating_state |-> Attr(TRUE, "off", None)] >>],
        !.position = [enabled |-> TRUE, latitude |-> Attr(TRUE, "52.1", "deg"),
                      longitude |-> Attr(TRUE, "8.5", "deg"),
                      position_type |-> Attr(TRUE, "parking", None)],
        !.climatization = [enabled |-> TRUE, state |-> Attr(TRUE, "off", None),
                           commands |-> [enabled |-> TRUE, commands |-> {"start-stop"}],
                           settings |-> [enabled |-> TRUE,
                                         target_temperature |->
                                             Ranged(TRUE, "21", "C", "16", "30", "0.5", TRUE)],
                           estimated_date_reached |-> Attr(TRUE, "2025-01-01T08:00", None)],
        !.outside_temperature = Attr(TRUE, "11", "C"),
        !.maintenance = [enabled |-> TRUE, inspection_due_at |-> Attr(TRUE, "2025-06-01", None),
                         inspection_due_after |-> Attr(TRUE, "9000", "km"),
                         oil_service_due_at |-> Attr(TRUE, "2025-03-01", None),
                         oil_service_due_after |-> Attr(TRUE, "4000", "km")],
        !.images = [enabled |-> TRUE,
                    images |-> << [id |-> "car_picture", enabled |-> TRUE, value |-> "png"] >>],
        !.charging = [connector |-> [connection_state |-> Attr(TRUE, "connected", None),
                                     lock_state |-> Attr(TRUE, "locked", None),
                                     external_power |-> Attr(TRUE, "available", None)],
                      commands |-> [enabled |-> TRUE, commands |-> {"start-stop"}],
                      state |-> Attr(TRUE, "charging", None), type |-> Attr(TRUE, "ac", None),
                      rate |-> Attr(TRUE, "50", "km/h"), power |-> Attr(TRUE, "11", "kW"),
                      estimated_date_reached |-> Attr(TRUE, "2025-01-01T09:00", None),
                      settings |-> [present |-> TRUE,
                                    target_level |-> Ranged(TRUE, "80", "%", "50", "100", "10", TRUE),
                                    maximum_current |-> Ranged(TRUE, "16", "A", "6", "16", "1", TRUE),
                                    auto_unlock |-> Attr(TRUE, "true", None)]]]

NoElement == [vid |-> "", id |-> ""]

NoEvent == [el |-> NoElement, flags |-> {}]

Op(name, el, flags, reason_code, topic, payload, raised) ==
    [name |-> name, el |-> el, flags |-> flags, reason_code |-> reason_code,
     topic |-> topic, payload |-> payload, raised |-> raised]

\* the configured values of homeassistant_prefix, lines 58-61
Prefixes == {"homeassistant", "ha"}

\* the thread of the MQTT client, which calls the connect and message callbacks
\* (lines 75-76), and the thread of the data model, which calls the observer (line 79)
Threads == {"transport", "model"}

\* a thread outside the handlers of the plugin; in a handler, todo are the devices
\* still to render and held is the document whose hash is stored and which is not
\* published yet
Idle == [handler |-> "idle", force |-> FALSE, el |-> NoElement, flags |-> {}, todo |-> <<>>,
         held |-> [key |-> None, topic |-> None, doc |-> NoDoc]]

InitPlugin ==
    /\ phase = "constructed"
    /\ mqtt_plugin = None
    /\ callbacks = [on_message |-> FALSE, on_connect |-> FALSE, observer |-> FALSE]
    /\ healthy = FALSE
    /\ homeassistant_discovery = TRUE
    /\ homeassistant_prefix \in Prefixes
    /\ homeassistant_discovery_hashes = <<>>
    /\ hooks = [v \in Range(VehicleOrder) |-> 0]
    /\ pending = NoEvent
    /\ connected = FALSE
    /\ subscriptions = {}
    /\ topics = {}
    /\ lastDoc = <<>>
    /\ lastRender = <<>>
    /\ replays = << <<>>, <<>> >>
    /\ lastPosition = [v \in Range(VehicleOrder) |-> None]
    /\ op = Op("init", NoElement, {}, 0, "", "", FALSE)
    /\ pubs = <<>>
    /\ attempts = <<>>
    /\ running = [t \in Threads |-> Idle]

InitSystem ==
    /\ connectors = << Member("volkswagen", "Volkswagen Connector", "Connector") >>
    /\ plugins = << Member("mqtt", "MQTT Plugin", "MqttPlugin"),
                    [Member("mqtt_homeassistant", "MQTT Home Assistant Plugin", "Plugin")
                        EXCEPT !.connection_state.present = FALSE, !.healthy = Off] >>

Init ==
    /\ InitPlugin
    /\ InitSystem
    /\ garage = [v \in Range(VehicleOrder) |->
                    IF v = "v1" THEN ElectricCar("WVW1234") ELSE CombustionCar("TMB5678")]

(***************************************************************************)
(* The steps.  A handler runs to its end in one step; Commit stores what    *)
(* the run left behind.                                                     *)
(***************************************************************************)
\* the publish calls to the derived topics among pubs
DerivedPubs(ps) == SelectSeq(ps, LAMBDA p : p.doc = NoDoc)

\* the payload of the last publish of ps to topic, or previous when there is none
LastPayload(ps, topic, previous) ==
    LET on_topic == SelectSeq(ps, LAMBDA p : p.topic = topic)
    IN IF on_topic = <<>> THEN previous ELSE on_topic[Len(on_topic)].payload

Record(r, o) ==
    /\ \A v \in DOMAIN r.hooks : r.hooks[v] <= MaxHooks
    /\ homeassistant_discovery_hashes' = r.hashes
    /\ hooks' = r.hooks
    /\ subscriptions' = r.subs
    /\ topics' = r.topics
    /\ lastDoc' = r.lastDoc
    /\ pubs' = r.pubs
    /\ attempts' = r.attempts
    /\ lastRender' = r.lastRender
    /\ replays' = IF o.name = "connect" /\ o.reason_code = 0 /\ callbacks.on_connect
                  THEN <<DerivedPubs(r.pubs), replays[1]>>
                  ELSE IF o.name = "set" THEN << <<>>, <<>> >>
                  ELSE replays
    /\ lastPosition' = [v \in DOMAIN lastPosition |->
                           LastPayload(r.pubs, Topic(garage[v].vin, "position") \o "/attributes",
                                       lastPosition[v])]
    /\ op' = o

\* a handler that runs from its first statement to its last in one step
Commit(r, o) ==
    /\ Record(r, o)
    /\ running' = running

\* a variant that takes any entry 'mqtt' for an MqttPlugin
MqttEntryUntyped ==
    IF \E i \in 1..Len(plugins) : plugins[i].id = "mqtt" THEN "MqttPlugin" ELSE None

\* the class of the entry 'mqtt' of car_connectivity.plugins.plugins, or None
MqttEntry ==
    IF \E i \in 1..Len(plugins) : plugins[i].id = "mqtt"
    THEN plugins[CHOOSE i \in 1..Len(plugins) : plugins[i].id = "mqtt"].class
    ELSE None

\* startup(), lines 63-82
Startup ==
    /\ phase = "constructed"
    /\ IF MqttEntry = "MqttPlugin"
       THEN /\ phase' = "started"
            /\ mqtt_plugin' = "set"
            /\ callbacks' = [on_message |-> TRUE, on_connect |-> TRUE, observer |-> TRUE]
            /\ healthy' = TRUE
            /\ plugins' = [i \in 1..Len(plugins) |->
                              IF plugins[i].id = "mqtt_homeassistant"
                              THEN [plugins[i] EXCEPT !.healthy = Attr(TRUE, "True", None)]
                              ELSE plugins[i]]
            /\ Commit(BeginRun, Op("startup", NoElement, {}, 0, "", "", FALSE))
       ELSE /\ phase' = "failed"
            /\ UNCHANGED <<mqtt_plugin, callbacks, healthy, plugins>>
            /\ Commit(BeginRun, Op("startup", NoElement, {}, 0, "", "", TRUE))
    /\ UNCHANGED <<homeassistant_discovery, homeassistant_prefix, garage, connectors,
                   pending, connected>>

\* the data model sets the enabled flag and the value of an attribute and notifies
\* the observer registered by startup (line 79)
SetAttribute(vid, id, e, v) ==
    LET a == GetAttr(garage[vid], id)
        flags == (IF e /\ ~a.enabled THEN {"ENABLED"} ELSE {})
                 \cup (IF ~e /\ a.enabled THEN {"DISABLED"} ELSE {})
                 \cup (IF v # a.value THEN {"VALUE_CHANGED"} ELSE {})
    IN /\ pending = NoEvent
       /\ flags # {}
       /\ garage' = [garage EXCEPT ![vid] = SetAttr(@, id, [a EXCEPT !.enabled = e, !.value = v])]
       /\ pending' = IF callbacks.observer
                     THEN [el |-> [vid |-> vid, id |-> id], flags |-> flags]
                     ELSE NoEvent
       /\ Commit(BeginRun, Op("set", [vid |-> vid, id |-> id], flags, 0, "", "", FALSE))
       /\ UNCHANGED <<phase, mqtt_plugin, callbacks, healthy, homeassistant_discovery,
                      homeassistant_prefix, connectors, plugins, connected>>

\* the observer is called with the notification in flight
Notify ==
    /\ pending # NoEvent
    /\ callbacks.observer
    /\ \E r \in {on_carconnectivity_event(BeginRun, pending.el, pending.flags)} :
          Commit(r, Op("event", pending.el, pending.flags, 0, "", "", r.raised))
    /\ pending' = NoEvent
    /\ UNCHANGED <<phase, mqtt_plugin, callbacks, healthy, homeassistant_discovery,
                   homeassistant_prefix, garage, connectors, plugins, connected>>

\* the MQTT client ends a connection attempt with reason_code and calls the connect
\* callbacks; is_connected() is true from a successful attempt on
Connect(reason_code) ==
    /\ ~connected
    /\ connected' = (reason_code = 0)
    /\ IF callbacks.on_connect
       THEN \E r \in {on_connect_callback([BeginRun EXCEPT !.is_connected = (reason_code = 0)],
                                           reason_code)} :
               Commit(r, Op("connect", NoElement, {}, reason_code, "", "", r.raised))
       ELSE Commit(BeginRun, Op("connect", NoElement, {}, reason_code, "", "", FALSE))
    /\ UNCHANGED <<phase, mqtt_plugin, callbacks, healthy, homeassistant_discovery,
                   homeassistant_prefix, garage, connectors, plugins, pending>>

\* the connection is lost
Disconnect ==
    /\ connected
    /\ connected' = FALSE
    /\ Commit(BeginRun, Op("disconnect", NoElement, {}, 0, "", "", FALSE))
    /\ UNCHANGED <<phase, mqtt_plugin, callbacks, healthy, homeassistant_discovery,
                   homeassistant_prefix, garage, connectors, plugins, pending>>

\* the MQTT client delivers a message to the message callbacks
Message(topic, payload) ==
    /\ connected
    /\ callbacks.on_message
    /\ \E r \in {on_message_callback(BeginRun, topic, payload)} :
          Commit(r, Op("message", NoElement, {}, 0, topic, payload, r.raised))
    /\ UNCHANGED <<phase, mqtt_plugin, callbacks, healthy, homeassistant_discovery,
                   homeassistant_prefix, garage, connectors, plugins, pending, connected>>

\* the inputs of the steps
ReasonCodes == {0, 5}

MessageTopics == {"homeassistant/status", "ha/status"}

MessagePayloads == {"online", "ONLINE", "offline"}

Next ==
    \/ Startup
    \/ \E e \in BOOLEAN, v \in {None, "12345"} : SetAttribute("v1", "odometer", e, v)
    \/ \E e \in BOOLEAN : SetAttribute("v1", "state", e, "parked")
    \/ Notify
    \/ \E rc \in ReasonCodes : Connect(rc)
    \/ Disconnect
    \/ \E t \in MessageTopics, p \in MessagePayloads : Message(t, p)

Spec == Init /\ [][Next]_vars

(***************************************************************************)
(* The derived topics: two electric vehicles, the second one enabled or     *)
(* not, and a data model that changes the position, the charging state and  *)
(* the climatization state of the first.                                    *)
(***************************************************************************)
InitDerived ==
    /\ InitPlugin
    /\ InitSystem
    /\ homeassistant_prefix = "homeassistant"
    /\ \E e \in BOOLEAN :
          garage = [v \in Range(VehicleOrder) |->
                       IF v = "v1" THEN ElectricCar("WVW1234")
                       ELSE [ElectricCar("TMB5678") EXCEPT !.enabled = e]]

NextDerived ==
    \/ Startup
    \/ \E e \in BOOLEAN : SetAttribute("v1", "charging/state", e, "charging")
    \/ \E v \in {None, "8.5"} : SetAttribute("v1", "position/longitude", TRUE, v)
    \/ \E v \in {"off", "heating"} : SetAttribute("v1", "climatization/state", TRUE, v)
    \/ Notify
    \/ \E rc \in ReasonCodes : Connect(rc)
    \/ Disconnect

SpecDerived == InitDerived /\ [][NextDerived]_vars

(***************************************************************************)
(* The charging binary state: a data model that takes the charging state of *)
(* the electric vehicle through every value of Charging.ChargingState.      *)
(***************************************************************************)
InitCharging ==
    /\ Init
    /\ homeassistant_prefix = "homeassistant"

NextCharging ==
    \/ Startup
    \/ \E e \in BOOLEAN, v \in ChargingState : SetAttribute("v1", "charging/state", e, v)
    \/ Notify
    \/ \E rc \in ReasonCodes : Connect(rc)
    \/ Disconnect

SpecCharging == InitCharging /\ [][NextCharging]_vars

(***************************************************************************)
(* The climatization topics: a data model that takes the climatization      *)
(* state of the vehicle through every value of ClimatizationState.          *)
(***************************************************************************)
NextClimatization ==
    \/ Startup
    \/ \E e \in BOOLEAN, v \in ClimatizationState :
          SetAttribute("v1", "climatization/state", e, v)
    \/ Notify
    \/ \E rc \in ReasonCodes : Connect(rc)
    \/ Disconnect

SpecClimatization == InitCharging /\ [][NextClimatization]_vars

(***************************************************************************)
(* The position topic: a data model that enables, disables, clears and      *)
(* moves the latitude and the longitude of the vehicle.                     *)
(***************************************************************************)
Latitudes == {"52.1", "53.0"}

Longitudes == {"8.5", "9.0"}

\* the <<enabled, value>> pairs a coordinate drawn from values goes through: enabled
\* with each value, enabled without a value, disabled with a value
CoordinateInputs(values) ==
    {<<TRUE, v>> : v \in values} \cup {<<TRUE, None>>}
        \cup {<<FALSE, CHOOSE v \in values : TRUE>>}

NextPosition ==
    \/ Startup
    \/ \E a \in CoordinateInputs(Latitudes) : SetAttribute("v1", "position/latitude", a[1], a[2])
    \/ \E a \in CoordinateInputs(Longitudes) : SetAttribute("v1", "position/longitude", a[1], a[2])
    \/ Notify
    \/ \E rc \in ReasonCodes : Connect(rc)
    \/ Disconnect

SpecPosition == InitCharging /\ [][NextPosition]_vars

(***************************************************************************)
(* The life cycle: startup with the entry 'mqtt' of the plugins an          *)
(* MqttPlugin, another plugin, None or absent, a second vehicle with or     *)
(* without a VIN, shutdown, and calls of _publish_homeassistant_discovery   *)
(* from outside the handlers.                                               *)
(***************************************************************************)
\* shutdown(), lines 84-88
Shutdown ==
    /\ phase # "stopped"
    /\ phase' = "stopped"
    /\ callbacks' = IF mqtt_plugin # None
                    THEN [callbacks EXCEPT !.on_message = FALSE, !.on_connect = FALSE]
                    ELSE callbacks
    /\ Commit(BeginRun, Op("shutdown", NoElement, {}, 0, "", "", FALSE))
    /\ UNCHANGED <<mqtt_plugin, healthy, homeassistant_discovery, homeassistant_prefix, garage,
                   connectors, plugins, pending, connected>>

\* _publish_homeassistant_discovery(force) called on the plugin object
PublishDiscovery(force) ==
    /\ \E r \in {publish_homeassistant_discovery(BeginRun, force)} :
          Commit(r, Op("call", NoElement, {}, 0, "", "", r.raised))
    /\ UNCHANGED <<phase, mqtt_plugin, callbacks, healthy, homeassistant_discovery,
                   homeassistant_prefix, garage, connectors, plugins, pending, connected>>

InitLifecycle ==
    /\ InitPlugin
    /\ homeassistant_prefix = "homeassistant"
    /\ connectors = << Member("volkswagen", "Volkswagen Connector", "Connector") >>
    /\ \E mqtt \in {<<>>} \cup {<<Member("mqtt", "MQTT Plugin", cls)>> :
                                    cls \in {"MqttPlugin", "Plugin", None}} :
          plugins = mqtt \o << [Member("mqtt_homeassistant", "MQTT Home Assistant Plugin", "Plugin")
                                   EXCEPT !.connection_state.present = FALSE, !.healthy = Off] >>
    /\ \E vin \in {"TMB5678", None} :
          garage = [v \in Range(VehicleOrder) |->
                       IF v = "v1" THEN ElectricCar("WVW1234") ELSE CombustionCar(vin)]

NextLifecycle ==
    \/ Startup
    \/ Shutdown
    \/ \E e \in BOOLEAN : SetAttribute("v1", "odometer", e, "12345")
    \/ Notify
    \/ \E rc \in ReasonCodes : Connect(rc)
    \/ Disconnect
    \/ \E t \in MessageTopics, p \in MessagePayloads : Message(t, p)
    \/ \E force \in BOOLEAN : PublishDiscovery(force)

SpecLifecycle == InitLifecycle /\ [][NextLifecycle]_vars

(***************************************************************************)
(* The climatization start-stop command.  Each render of the climate entity *)
(* attaches one more __mode_to_command_hook to the command (line 551); a    *)
(* value received for the command passes through the attached hooks in the  *)
(* order they were attached before the data model takes it.                 *)
(***************************************************************************)
\* a variant of the hook that also maps the commands back to the modes
mode_to_command_hook_toggling(value) ==
    IF value = "off" THEN "stop"
    ELSE IF value = "auto" THEN "start"
    ELSE IF value = "stop" THEN "off"
    ELSE IF value = "start" THEN "auto"
    ELSE value

\* __mode_to_command_hook(attribute, value), lines 543-549
mode_to_command_hook(value) ==
    IF value = "off" THEN "stop"
    ELSE IF value = "auto" THEN "start"
    ELSE value

\* value after n attached copies of the hook
RECURSIVE ApplyHooks(_, _)
ApplyHooks(n, value) ==
    IF n = 0 THEN value ELSE ApplyHooks(n - 1, mode_to_command_hook(value))

\* the payloads of the mode command topic and the power command topic of the climate
\* entity (lines 556-562), and two others
CommandValues == {"off", "auto", "start", "stop", "heat", ""}

\* a value arrives for the climatization start-stop command of vehicle vid
Command(vid, value) ==
    /\ connected
    /\ "start-stop" \in garage[vid].climatization.commands.commands
    /\ Commit(BeginRun, [name |-> "command",
                         el |-> [vid |-> vid, id |-> "climatization/commands/start-stop"],
                         flags |-> {}, reason_code |-> 0, topic |-> "", payload |-> value,
                         raised |-> FALSE, value |-> ApplyHooks(hooks[vid], value)])
    /\ UNCHANGED <<phase, mqtt_plugin, callbacks, healthy, homeassistant_discovery,
                   homeassistant_prefix, garage, connectors, plugins, pending, connected>>

InitCommand ==
    /\ InitPlugin
    /\ InitSystem
    /\ homeassistant_prefix = "homeassistant"
    /\ garage = [v \in Range(VehicleOrder) |->
                    IF v = "v1" THEN FullCar("WVW1234") ELSE CombustionCar("TMB5678")]

NextCommand ==
    \/ Startup
    \/ \E e \in BOOLEAN : SetAttribute("v1", "odometer", e, "12345")
    \/ Notify
    \/ \E rc \in ReasonCodes : Connect(rc)
    \/ Disconnect
    \/ \E p \in MessagePayloads : Message("homeassistant/status", p)
    \/ \E value \in CommandValues : Command("v1", value)

SpecCommand == InitCommand /\ [][NextCommand]_vars

(***************************************************************************)
(* The discovery switch.  The constructor sets homeassistant_discovery to   *)
(* True (line 53) and no statement of the plugin changes it; it is a public *)
(* attribute that the host of the plugin can clear.                         *)
(***************************************************************************)
\* plugin.homeassistant_discovery = False, assigned from outside the plugin
DisableDiscovery ==
    /\ homeassistant_discovery
    /\ homeassistant_discovery' = FALSE
    /\ Commit(BeginRun, Op("disable", NoElement, {}, 0, "", "", FALSE))
    /\ UNCHANGED <<phase, mqtt_plugin, callbacks, healthy, homeassistant_prefix, garage,
                   connectors, plugins, pending, connected>>

NextDiscovery ==
    \/ Startup
    \/ DisableDiscovery
    \/ \E e \in BOOLEAN : SetAttribute("v1", "odometer", e, "12345")
    \/ Notify
    \/ \E rc \in ReasonCodes : Connect(rc)
    \/ Disconnect
    \/ \E t \in MessageTopics, p \in MessagePayloads : Message(t, p)

SpecDiscovery == InitCharging /\ [][NextDiscovery]_vars

(***************************************************************************)
(* Two threads.  Nothing in the plugin serializes its handlers (no lock in  *)
(* lines 49-61 or around 818-823), so a handler called on the thread of the *)
(* MQTT client and one called on the thread of the data model interleave.   *)
(* A handler is cut at the publish calls of the discovery: Store runs up to *)
(* the cache write of the next device (line 821 or 187), Send is the        *)
(* publish call that follows it (822-823 or 188-189), End is what the       *)
(* handler does after _publish_homeassistant_discovery.                     *)
(***************************************************************************)
\* the devices of _publish_homeassistant_discovery in the order of lines 100-189
Devices == VehicleOrder \o <<car_connectivity_id>>

\* a callback is called on thread t
Begin(t, handler) ==
    /\ running[t] = Idle
    /\ mqtt_plugin # None
    /\ CASE handler = "connect" -> t = "transport" /\ ~connected /\ callbacks.on_connect
          [] handler = "message" -> t = "transport" /\ connected /\ callbacks.on_message
          [] handler = "event" -> t = "model" /\ pending # NoEvent /\ callbacks.observer
    /\ connected' = (connected \/ handler = "connect")
    /\ pending' = IF handler = "event" THEN NoEvent ELSE pending
    /\ running' = [running EXCEPT ![t] =
                      [Idle EXCEPT !.handler = handler,
                                   !.force = (handler # "event"),
                                   !.el = IF handler = "event" THEN pending.el ELSE NoElement,
                                   !.flags = IF handler = "event" THEN pending.flags ELSE {},
                                   !.todo = IF handler = "event" /\ "ENABLED" \notin pending.flags
                                            THEN <<>> ELSE Devices]]
    /\ Record(IF handler = "connect" THEN Subscribe(BeginRun, "homeassistant/status") ELSE BeginRun,
              Op("begin", NoElement, {}, 0, "", handler, FALSE))
    /\ UNCHANGED <<phase, mqtt_plugin, callbacks, healthy, homeassistant_discovery,
                   homeassistant_prefix, garage, connectors, plugins>>

\* thread t renders the next device, compares the hash and writes the cache
Store(t) ==
    LET th == running[t]
        key == Head(th.todo)
        vehicle == \E v \in Range(VehicleOrder) : v = key
        skipped == vehicle /\ (~garage[key].enabled \/ ~connected)
        id == IF vehicle THEN garage[key].vin ELSE car_connectivity_id
        topic == IF vehicle THEN homeassistant_prefix \o "/device/" \o id \o "/config"
                 ELSE homeassistant_prefix \o "/device/carconnectivity-" \o id \o "/config"
    IN /\ th.handler # "idle"
       /\ th.todo # <<>>
       /\ th.held = Idle.held
       /\ IF skipped
          THEN /\ running' = [running EXCEPT ![t].todo = Tail(@)]
               /\ Record(BeginRun, Op("store", [vid |-> key, id |-> ""], {}, 0, "", t, FALSE))
          ELSE \E m \in {IF vehicle THEN RenderVehicle(garage[key])
                         ELSE RenderSystem(connectors, plugins)} :
               \E discovery_hash \in {PyHash(Dumps(m))} :
               \E publish \in {ShouldPublish(homeassistant_discovery_hashes, id,
                                             discovery_hash, th.force)} :
               \E r \in {[BeginRun EXCEPT
                            !.attempts = <<Attempt(BeginRun, id, Document(m), discovery_hash,
                                                   th.force, publish)>>,
                            !.lastRender = (id :> [doc |-> Document(m), hash |-> discovery_hash,
                                                   force |-> th.force]) @@ @,
                            !.hashes = IF publish THEN StoreHash(@, id, discovery_hash) ELSE @,
                            !.hooks = IF vehicle THEN [@ EXCEPT ![key] = @ + m.hooked] ELSE @]} :
                  /\ running' = [running EXCEPT ![t] =
                                    IF publish
                                    THEN [th EXCEPT !.held = [key |-> id, topic |-> topic,
                                                              doc |-> Document(m)]]
                                    ELSE [th EXCEPT !.todo = Tail(@)]]
                  /\ Record(r, Op("store", [vid |-> key, id |-> ""], {}, 0, "", t, FALSE))
       /\ UNCHANGED <<phase, mqtt_plugin, callbacks, healthy, homeassistant_discovery,
                      homeassistant_prefix, garage, connectors, plugins, pending, connected>>

\* thread t hands the document whose hash it has stored to mqtt_client.publish
Send(t) ==
    LET th == running[t]
    IN /\ th.held # Idle.held
       /\ running' = [running EXCEPT ![t] = [th EXCEPT !.held = Idle.held, !.todo = Tail(@)]]
       /\ Record(Publish([BeginRun EXCEPT !.lastDoc = (th.held.key :> th.held.doc) @@ @],
                         th.held.topic, "json.dumps(discovery_message, indent=4)", th.held.doc),
                 Op("send", [vid |-> Head(th.todo), id |-> ""], {}, 0, "", t, FALSE))
       /\ UNCHANGED <<phase, mqtt_plugin, callbacks, healthy, homeassistant_discovery,
                      homeassistant_prefix, garage, connectors, plugins, pending, connected>>

\* thread t runs the rest of its handler: lines 911-923 or 972-981
End(t) ==
    LET th == running[t]
    IN /\ th.handler # "idle"
       /\ th.todo = <<>>
       /\ running' = [running EXCEPT ![t] = Idle]
       /\ \E r \in {CASE th.handler = "connect" -> ReplayVehicles(BeginRun, VehicleOrder)
                       [] th.handler = "event" -> RouteDerived(BeginRun, th.el)
                       [] th.handler = "message" -> BeginRun} :
             Record(r, Op(th.handler, th.el, th.flags, 0, "", t, r.raised))
       /\ UNCHANGED <<phase, mqtt_plugin, callbacks, healthy, homeassistant_discovery,
                      homeassistant_prefix, garage, connectors, plugins, pending, connected>>

InitThreads ==
    /\ InitPlugin
    /\ InitSystem
    /\ homeassistant_prefix = "homeassistant"
    /\ garage = [v \in Range(VehicleOrder) |->
                    IF v = "v1" THEN ElectricCar("WVW1234")
                    ELSE [CombustionCar("TMB5678") EXCEPT !.enabled = FALSE]]

NextThreads ==
    \/ Startup
    \/ \E e \in BOOLEAN : running["model"] = Idle /\ SetAttribute("v1", "odometer", e, "12345")
    \/ running["model"] = Idle /\ SetAttribute("v1", "state", TRUE, None)
    \/ \E handler \in {"connect", "message", "event"}, t \in Threads : Begin(t, handler)
    \/ \E t \in Threads : Store(t)
    \/ \E t \in Threads : Send(t)
    \/ \E t \in Threads : End(t)

SpecThreads == InitThreads /\ [][NextThreads]_vars

(***************************************************************************)
(* Value changes: a data model that changes the value of the odometer, the  *)
(* longitude, the charging state and the climatization state, all enabled.  *)
(***************************************************************************)
NextNotify ==
    \/ Startup
    \/ \E v \in {"12345", "20000"} : SetAttribute("v1", "odometer", TRUE, v)
    \/ \E v \in Longitudes : SetAttribute("v1", "position/longitude", TRUE, v)
    \/ \E v \in {"charging", "off"} : SetAttribute("v1", "charging/state", TRUE, v)
    \/ \E v \in {"off", "heating"} : SetAttribute("v1", "climatization/state", TRUE, v)
    \/ Notify
    \/ \E rc \in ReasonCodes : Connect(rc)
    \/ Disconnect

SpecNotify == InitCharging /\ [][NextNotify]_vars

(***************************************************************************)
(* The render: data models drawn from a vehicle with every facet, one facet *)
(* of which is disabled, or enabled without a value, or named differently,  *)
(* and from connectors and plugins of the same kind.                        *)
(***************************************************************************)
\* the node of the data model below node at path
RECURSIVE AttributeAt(_, _)
AttributeAt(node, path) ==
    IF path = <<>> THEN node ELSE AttributeAt(node[Head(path)], Tail(path))

\* node with a in the place of the node at path
RECURSIVE WithAttribute(_, _, _)
WithAttribute(node, path, a) ==
    IF Len(path) = 1 THEN [node EXCEPT ![path[1]] = a]
    ELSE [node EXCEPT ![path[1]] = WithAttribute(@, Tail(path), a)]

\* an attribute a descriptor is rendered from: where it is in the vehicle, its
\* get_absolute_path() below the vehicle, and whether it is an EnumAttribute
Facet(path, rel, enum) == [path |-> path, rel |-> rel, enum |-> enum]

\* the facets of the items of a container, e.g. of vehicle.doors.doors
ItemFacets(veh, container, leaves, enum) ==
    LET items == veh[container][container]
    IN [k \in 1..(Len(items) * Len(leaves)) |->
           LET i == ((k - 1) \div Len(leaves)) + 1
               leaf == leaves[((k - 1) % Len(leaves)) + 1]
           IN Facet(<<container, container, i, leaf>>,
                    container \o "/" \o items[i].id \o "/" \o leaf, enum)]

\* the attributes of a vehicle that lines 241-801 render descriptors from
Facets(veh) ==
    << Facet(<<"odometer">>, "odometer", FALSE),
       Facet(<<"state">>, "state", TRUE),
       Facet(<<"connection_state">>, "connection_state", TRUE),
       Facet(<<"drives", "total_range">>, "drives/total_range", FALSE) >>
    \o ItemFacets(veh, "drives", <<"range", "level", "adblue_level", "adblue_range">>, FALSE)
    \o [i \in 1..Len(veh.drives.drives) |->
           Facet(<<"drives", "drives", i, "battery", "temperature">>,
                 "drives/" \o veh.drives.drives[i].id \o "/battery/temperature", FALSE)]
    \o << Facet(<<"doors", "open_state">>, "doors/open_state", TRUE),
          Facet(<<"doors", "lock_state">>, "doors/lock_state", TRUE) >>
    \o ItemFacets(veh, "doors", <<"open_state", "lock_state">>, TRUE)
    \o << Facet(<<"windows", "open_state">>, "windows/open_state", TRUE) >>
    \o ItemFacets(veh, "windows", <<"open_state">>, TRUE)
    \o << Facet(<<"lights", "light_state">>, "lights/light_state", TRUE) >>
    \o ItemFacets(veh, "lights", <<"light_state">>, TRUE)
    \o << Facet(<<"window_heatings", "heating_state">>, "window_heatings/heating_state", TRUE) >>
    \o [i \in 1..Len(veh.window_heatings.windows) |->
           Facet(<<"window_heatings", "windows", i, "heating_state">>,
                 "window_heatings/" \o veh.window_heatings.windows[i].id \o "/heating_state", TRUE)]
    \o << Facet(<<"position", "latitude">>, "position/latitude", FALSE),
          Facet(<<"position", "longitude">>, "position/longitude", FALSE),
          Facet(<<"position", "position_type">>, "position/position_type", TRUE),
          Facet(<<"climatization", "state">>, "climatization/state", TRUE),
          Facet(<<"climatization", "settings", "target_temperature">>,
                "climatization/settings/target_temperature", FALSE),
          Facet(<<"climatization", "estimated_date_reached">>,
                "climatization/estimated_date_reached", FALSE),
          Facet(<<"outside_temperature">>, "outside_temperature", FALSE),
          Facet(<<"maintenance", "inspection_due_at">>, "maintenance/inspection_due_at", FALSE),
          Facet(<<"maintenance", "inspection_due_after">>, "maintenance/inspection_due_after", FALSE),
          Facet(<<"maintenance", "oil_service_due_at">>, "maintenance/oil_service_due_at", FALSE),
          Facet(<<"maintenance", "oil_service_due_after">>, "maintenance/oil_service_due_after", FALSE) >>
    \o [i \in 1..Len(veh.images.images) |->
           Facet(<<"images", "images", i>>, "images/" \o veh.images.images[i].id, FALSE)]
    \o << Facet(<<"charging", "connector", "connection_state">>,
                "charging/connector/connection_state", TRUE),
          Facet(<<"charging", "connector", "lock_state">>, "charging/connector/lock_state", TRUE),
          Facet(<<"charging", "connector", "external_power">>,
                "charging/connector/external_power", TRUE),
          Facet(<<"charging", "state">>, "charging/state", TRUE),
          Facet(<<"charging", "type">>, "charging/type", TRUE),
          Facet(<<"charging", "rate">>, "charging/rate", FALSE),
          Facet(<<"charging", "power">>, "charging/power", FALSE),
          Facet(<<"charging", "estimated_date_reached">>, "charging/estimated_date_reached", FALSE),
          Facet(<<"charging", "settings", "target_level">>, "charging/settings/target_level", FALSE),
          Facet(<<"charging", "settings", "maximum_current">>,
                "charging/settings/maximum_current", FALSE),
          Facet(<<"charging", "settings", "auto_unlock">>, "charging/settings/auto_unlock", FALSE) >>

\* veh with the attribute at path disabled, its value, unit and commands as they are
Disabled(veh, path) ==
    WithAttribute(veh, path, [AttributeAt(veh, path) EXCEPT !.enabled = FALSE])

\* veh with the value None in the attribute at path, enabled as it is
Unset(veh, path) ==
    WithAttribute(veh, path, [AttributeAt(veh, path) EXCEPT !.value = None])

\* ids given to the one light of the vehicle
LightIds == {"left", "light", "connection"}

\* the vehicles rendered
VehicleInputs ==
    LET car == FullCar("WVW1234")
    IN {car}
       \cup {Disabled(car, Facets(car)[i].path) : i \in 1..Len(Facets(car))}
       \cup {Unset(car, Facets(car)[i].path) : i \in {j \in 1..Len(Facets(car)) : Facets(car)[j].enum}}
       \cup {[car EXCEPT !.lights.lights[1].id = id] : id \in LightIds}
       \cup {[Disabled(car, <<"lights", "light_state">>) EXCEPT !.lights.lights[1].id = "light"]}
       \cup {[car EXCEPT !.doors.commands.commands = {}],
             [car EXCEPT !.window_heatings.commands.commands = {}],
             [car EXCEPT !.climatization.commands.commands = {}],
             [car EXCEPT !.climatization.commands.enabled = FALSE]}
       \cup {[car EXCEPT !.window_heatings.windows[1] =
                             [id |-> "rear", enabled |-> TRUE, rear |-> TRUE, heating_state |-> a]] :
                 a \in {Attr(TRUE, "off", None), Attr(FALSE, "off", None), Attr(TRUE, None, None)}}
       \cup {[car EXCEPT !.charging.settings.target_level.unit = None],
             [car EXCEPT !.charging.settings.maximum_current.unit = None]}

\* the states a healthy or connection_state attribute of a connector or plugin is in
MemberAttributes == {<<TRUE, "connected">>, <<TRUE, None>>, <<FALSE, "connected">>}

\* the connectors and plugins rendered: the ones of Init, a connector or the MQTT
\* plugin with one attribute disabled or without a value, and a connector that has
\* the id of a plugin
SystemInputs ==
    LET connector == Member("volkswagen", "Volkswagen Connector", "Connector")
        mqtt == Member("mqtt", "MQTT Plugin", "MqttPlugin")
        this == [Member("mqtt_homeassistant", "MQTT Home Assistant Plugin", "Plugin")
                    EXCEPT !.connection_state.present = FALSE, !.healthy = Off]
    IN {[connectors |-> <<[connector EXCEPT !.connection_state.enabled = a[1],
                                            !.connection_state.value = a[2]]>>,
         plugins |-> <<mqtt, this>>] : a \in MemberAttributes}
       \cup {[connectors |-> <<[connector EXCEPT !.healthy.enabled = a[1],
                                               !.healthy.value = IF a[2] = None THEN None ELSE "True"]>>,
              plugins |-> <<mqtt, this>>] : a \in MemberAttributes}
       \cup {[connectors |-> <<connector>>,
              plugins |-> <<[mqtt EXCEPT !.connection_state.enabled = a[1],
                                         !.connection_state.value = a[2]], this>>] :
                 a \in MemberAttributes}
       \cup {[connectors |-> <<[connector EXCEPT !.id = "mqtt"]>>, plugins |-> <<mqtt, this>>]}

\* every vehicle with the connectors and plugins of Init, and the full vehicle with
\* every choice of connectors and plugins
RenderInputs ==
    {[vehicle |-> veh, connectors |-> <<Member("volkswagen", "Volkswagen Connector", "Connector")>>,
      plugins |-> <<Member("mqtt", "MQTT Plugin", "MqttPlugin"),
                    [Member("mqtt_homeassistant", "MQTT Home Assistant Plugin", "Plugin")
                        EXCEPT !.connection_state.present = FALSE, !.healthy = Off]>>] :
        veh \in VehicleInputs}
    \cup {[vehicle |-> FullCar("WVW1234"), connectors |-> sys.connectors, plugins |-> sys.plugins] :
             sys \in SystemInputs}

InitRender ==
    /\ InitPlugin
    /\ homeassistant_prefix = "homeassistant"
    /\ \E input \in RenderInputs :
          /\ garage = [v \in Range(VehicleOrder) |->
                          IF v = "v1" THEN input.vehicle ELSE CombustionCar("TMB5678")]
          /\ connectors = input.connectors
          /\ plugins = input.plugins

NextRender ==
    \/ Startup
    \/ \E rc \in ReasonCodes : Connect(rc)
    \/ Disconnect
    \/ \E t \in MessageTopics, p \in MessagePayloads : Message(t, p)

SpecRender == InitRender /\ [][NextRender]_vars

\* some field of some component of doc, the availability clause aside, holds topic
\* or the write topic of topic
Mentions(doc, topic) ==
    \E i \in 1..Len(doc.cmps) :
        \E j \in 1..Len(doc.cmps[i][2]) :
            /\ doc.cmps[i][2][j][1] # "availability.topic"
            /\ doc.cmps[i][2][j][2] \in {topic, topic \o "_writetopic"}

\* the connectors and the plugins with the kind their paths start with
Members ==
    [i \in 1..Len(connectors) |-> [kind |-> "connectors", member |-> connectors[i]]]
    \o [i \in 1..Len(plugins) |-> [kind |-> "plugins", member |-> plugins[i]]]

\* prefix and get_absolute_path() of the attribute leaf of a connector or plugin
MemberTopic(kind, member, leaf) == MqttPrefix \o "/" \o kind \o "/" \o member.id \o "/" \o leaf

(***************************************************************************)
(* The properties.  The attempts and publishes they speak of are those of   *)
(* the step that led to the state, which op names.                          *)
(***************************************************************************)

\* C1: repeated non-forced publish attempts for a device whose document did not
\* change publish it at most once: an attempt that finds no cache entry publishes,
\* and a non-forced attempt that renders the document of the attempt before it
\* publishes nothing.
C1_RepeatedAttemptsPublishOnce ==
    \A i \in 1..Len(attempts) :
        LET a == attempts[i]
        IN /\ ~a.cached => a.published
           /\ (~a.force /\ a.prev.doc = a.doc) => ~a.published

\* C1 happens: an ENABLED notification makes a non-forced attempt for the first
\* vehicle that renders the document of the non-forced attempt before and is skipped.
C1_Witness ==
    /\ op.name = "event"
    /\ "ENABLED" \in op.flags
    /\ \E i \in 1..Len(attempts) :
          /\ attempts[i].device = "WVW1234"
          /\ ~attempts[i].force /\ ~attempts[i].prev.force
          /\ attempts[i].prev.doc = attempts[i].doc
          /\ ~attempts[i].published

\* C2 as stated: of two consecutive non-forced attempts for a device that render
\* different documents, the second publishes and leaves its hash in the cache.
C2_DifferentDocumentsPublish ==
    \A i \in 1..Len(attempts) :
        LET a == attempts[i]
        IN (~a.force /\ ~a.prev.force /\ a.prev.doc # NoDoc /\ a.prev.doc # a.doc)
           => (a.published /\ homeassistant_discovery_hashes[a.device] = a.hash)

\* C2 amended: of two consecutive non-forced attempts for a device that render
\* different documents, the second publishes and leaves its hash in the cache when
\* the hashes of the two documents differ, and publishes nothing when they are equal.
C2_DifferentHashesPublish ==
    \A i \in 1..Len(attempts) :
        LET a == attempts[i]
        IN (~a.force /\ ~a.prev.force /\ a.prev.doc # NoDoc /\ a.prev.doc # a.doc)
           => /\ a.cached /\ a.cachedHash = a.prev.hash
              /\ homeassistant_discovery_hashes[a.device] = a.hash
              /\ a.published <=> (a.prev.hash # a.hash)

\* C2 happens: a non-forced attempt renders a document that differs in content and
\* in hash from the one of the non-forced attempt before it, and publishes.
C2_Witness ==
    \E i \in 1..Len(attempts) :
        /\ ~attempts[i].force /\ ~attempts[i].prev.force
        /\ attempts[i].prev.doc # NoDoc
        /\ attempts[i].prev.doc # attempts[i].doc
        /\ attempts[i].prev.hash # attempts[i].hash
        /\ attempts[i].published

\* C3: a forced attempt publishes the document and stores its hash, whatever the
\* cache held.
C3_ForceAlwaysPublishes ==
    \A i \in 1..Len(attempts) :
        attempts[i].force
        => /\ attempts[i].published
           /\ homeassistant_discovery_hashes[attempts[i].device] = attempts[i].hash
           /\ \E j \in 1..Len(pubs) : pubs[j].doc = attempts[i].doc

\* C3 happens: a forced attempt finds the hash of its document in the cache and
\* publishes.
C3_Witness ==
    \E i \in 1..Len(attempts) :
        /\ attempts[i].force
        /\ attempts[i].cached
        /\ attempts[i].cachedHash = attempts[i].hash
        /\ attempts[i].published

\* C4 as stated: a notification with the ENABLED or the DISABLED flag makes the
\* handler attempt a non-forced publish of the system device and, the transport
\* connected, of every enabled vehicle.
C4_EnabledOrDisabledResyncs ==
    (op.name = "event" /\ op.flags \cap {"ENABLED", "DISABLED"} # {})
    => \A d \in {car_connectivity_id}
                \cup {garage[v].vin : v \in {w \in DOMAIN garage : connected /\ garage[w].enabled}} :
          \E i \in 1..Len(attempts) : attempts[i].device = d /\ ~attempts[i].force

\* C5 as stated: with the transport connected and no notification in flight, the
\* document last published for an enabled vehicle is the render of the vehicle.
C5_PublishedDocumentInSync ==
    (connected /\ callbacks.observer /\ pending = NoEvent)
    => \A v \in DOMAIN garage :
          (garage[v].enabled /\ garage[v].vin \in DOMAIN lastDoc)
          => lastDoc[garage[v].vin] = Document(RenderVehicle(garage[v]))

\* C6: a connect callback with reason_code 0 subscribes to homeassistant/status and
\* publishes the document of every enabled vehicle and of the system device with
\* force, whatever the cache held.
C6_ConnectForcesDiscovery ==
    (op.name = "connect" /\ op.reason_code = 0 /\ callbacks.on_connect /\ homeassistant_discovery)
    => /\ "homeassistant/status" \in subscriptions
       /\ \A d \in {car_connectivity_id}
                   \cup {garage[v].vin : v \in {w \in DOMAIN garage : garage[w].enabled}} :
             \E i \in 1..Len(attempts) :
                /\ attempts[i].device = d
                /\ attempts[i].force
                /\ attempts[i].published
                /\ \E j \in 1..Len(pubs) : pubs[j].doc = attempts[i].doc

\* C6 happens: a connect callback with reason_code 0 publishes three documents, one
\* of them with its hash already in the cache.
C6_Witness ==
    /\ op.name = "connect" /\ op.reason_code = 0 /\ callbacks.on_connect
    /\ Len(attempts) = 3
    /\ \E i \in 1..Len(attempts) :
          /\ attempts[i].cached
          /\ attempts[i].cachedHash = attempts[i].hash
          /\ attempts[i].published

\* C7: a connect callback with reason_code 0 publishes, for every enabled vehicle in
\* turn, the position when latitude and longitude are enabled and set, the charging
\* binary state when the vehicle is electric and its charging state is enabled and
\* set, and the climatization binary state, HVAC action and HVAC mode when the
\* climatization state is enabled and set; a second connect with the data model
\* unchanged publishes the same again.
C7_ConnectReplaysDerived ==
    LET Pub(t, p) == [topic |-> t, payload |-> p, doc |-> NoDoc, registered |-> TRUE]
        Expected(v) ==
            LET veh == garage[v]
                lat == veh.position.latitude
                lon == veh.position.longitude
                chg == veh.charging.state
                cli == veh.climatization.state
            IN IF ~veh.enabled THEN <<>>
               ELSE (IF lat.enabled /\ lat.value # None /\ lon.enabled /\ lon.value # None
                     THEN <<Pub(Topic(veh.vin, "position") \o "/attributes",
                                PositionPayload(lat.value, lon.value))>>
                     ELSE <<>>)
                 \o (IF veh.electric /\ chg.enabled /\ chg.value # None
                     THEN <<Pub(Topic(veh.vin, "charging") \o "/binarystate",
                                ChargingBinaryPayload(chg.value))>>
                     ELSE <<>>)
                 \o (IF cli.enabled /\ cli.value # None
                     THEN <<Pub(Topic(veh.vin, "climatization") \o "/binarystate",
                                ClimatizationBinaryPayload(cli.value)),
                            Pub(Topic(veh.vin, "climatization") \o "/hvac_action",
                                HvacPayloads(cli.value)[1]),
                            Pub(Topic(veh.vin, "climatization") \o "/hvac_mode",
                                HvacPayloads(cli.value)[2])>>
                     ELSE <<>>)
    IN (op.name = "connect" /\ op.reason_code = 0 /\ callbacks.on_connect)
       => /\ DerivedPubs(pubs) = Expected("v1") \o Expected("v2")
          /\ replays[1] = DerivedPubs(pubs)
          /\ replays[2] # <<>> => replays[2] = replays[1]

\* C7 happens: the second of two connects with an unchanged data model publishes the
\* derived topics of both vehicles again.
C7_Witness ==
    /\ op.name = "connect" /\ op.reason_code = 0 /\ callbacks.on_connect
    /\ Len(DerivedPubs(pubs)) = 10
    /\ replays[2] = DerivedPubs(pubs)

C9_SubscribedTopicIsPrefixStatus ==
    (op.name = "connect" /\ op.reason_code = 0 /\ callbacks.on_connect)
    => subscriptions = {homeassistant_prefix \o "/status"}

\* C10: the payload published to the charging binarystate topic is "on" exactly for
\* charging, conservation and discharging and "off" exactly for off,
\* ready_for_charging and error.
C10_ChargingBinaryMapping ==
    \A i \in 1..Len(pubs), v \in DOMAIN garage :
        pubs[i].topic = Topic(garage[v].vin, "charging") \o "/binarystate"
        => LET value == garage[v].charging.state.value
           IN /\ pubs[i].payload = "on" <=> value \in {"charging", "conservation", "discharging"}
              /\ pubs[i].payload = "off" <=> value \in {"off", "ready_for_charging", "error"}

\* C10 happens: a notification of the charging state discharging publishes "on".
C10_Witness ==
    /\ op.name = "event"
    /\ garage["v1"].charging.state.value = "discharging"
    /\ \E i \in 1..Len(pubs) :
          /\ pubs[i].topic = Topic("WVW1234", "charging") \o "/binarystate"
          /\ pubs[i].payload = "on"

\* C11: the climatization derivations publish heating, auto, on for HEATING; cooling,
\* auto, on for COOLING; fan, auto, on for VENTILATION; off, off, off for OFF; and
\* within one run the HVAC mode is "off" exactly when the binary state is "off" and
\* exactly when the HVAC action is "off".
C11_ClimatizationMapping ==
    \A v \in DOMAIN garage :
        LET value == garage[v].climatization.state.value
            base == Topic(garage[v].vin, "climatization")
            Expected ==
                CASE value = "heating" ->
                        [action |-> "heating", mode |-> "auto", binary |-> "on"]
                  [] value = "cooling" ->
                        [action |-> "cooling", mode |-> "auto", binary |-> "on"]
                  [] value = "ventilation" ->
                        [action |-> "fan", mode |-> "auto", binary |-> "on"]
                  [] value = "off" ->
                        [action |-> "off", mode |-> "off", binary |-> "off"]
            Payloads(suffix) == {pubs[i].payload : i \in {j \in 1..Len(pubs) : pubs[j].topic = base \o suffix}}
        IN /\ value \in {"heating", "cooling", "ventilation", "off"}
              => /\ \A p \in Payloads("/hvac_action") : p = Expected.action
                 /\ \A p \in Payloads("/hvac_mode") : p = Expected.mode
                 /\ \A p \in Payloads("/binarystate") : p = Expected.binary
           /\ ("off" \in Payloads("/hvac_mode")) = ("off" \in Payloads("/binarystate"))
           /\ ("off" \in Payloads("/hvac_mode")) = ("off" \in Payloads("/hvac_action"))

\* C11 happens: a notification of the climatization state ventilation publishes fan,
\* auto and on.
C11_Witness ==
    /\ op.name = "event"
    /\ garage["v1"].climatization.state.value = "ventilation"
    /\ \E i, j, k \in 1..Len(pubs) :
          /\ pubs[i].topic = Topic("WVW1234", "climatization") \o "/hvac_action"
          /\ pubs[i].payload = "fan"
          /\ pubs[j].topic = Topic("WVW1234", "climatization") \o "/hvac_mode"
          /\ pubs[j].payload = "auto"
          /\ pubs[k].topic = Topic("WVW1234", "climatization") \o "/binarystate"
          /\ pubs[k].payload = "on"

\* C12 as stated: no publish goes to the charging binarystate topic, nor to the
\* climatization binarystate, hvac_action and hvac_mode topics, while the state it
\* derives from has a value outside the mapping table.
C12_UnmappedStateNotPublished ==
    \A i \in 1..Len(pubs), v \in DOMAIN garage :
        /\ pubs[i].topic = Topic(garage[v].vin, "charging") \o "/binarystate"
           => garage[v].charging.state.value
                 \in {"charging", "conservation", "discharging", "off", "ready_for_charging", "error"}
        /\ pubs[i].topic \in {Topic(garage[v].vin, "climatization") \o sfx :
                                 sfx \in {"/binarystate", "/hvac_action", "/hvac_mode"}}
           => garage[v].climatization.state.value \in {"heating", "cooling", "ventilation", "off"}

C14_LongitudeNotificationPublishesPosition ==
    (op.name = "event" /\ op.el.id = "position/longitude"
        /\ op.flags \cap {"ENABLED", "VALUE_CHANGED"} # {})
    => LET pos == garage[op.el.vid].position
           topic == Topic(garage[op.el.vid].vin, "position") \o "/attributes"
           on_topic == SelectSeq(pubs, LAMBDA p : p.topic = topic)
       IN IF Present(pos.latitude) /\ Present(pos.longitude)
          THEN /\ Len(on_topic) = 1
               /\ on_topic[1].payload = PositionPayload(pos.latitude.value, pos.longitude.value)
          ELSE on_topic = <<>>

\* C14 happens: the longitude moved after the latitude had moved, and its
\* notification published both new coordinates.
C14_Witness ==
    /\ op.name = "event"
    /\ op.el = [vid |-> "v1", id |-> "position/longitude"]
    /\ op.flags = {"VALUE_CHANGED"}
    /\ \E i \in 1..Len(pubs) :
          /\ pubs[i].topic = Topic("WVW1234", "position") \o "/attributes"
          /\ pubs[i].payload = PositionPayload("53.0", "9.0")

\* C15 as stated: once the plugin has published the position of a vehicle, whenever
\* the client is connected, no notification is in flight and latitude and longitude
\* are enabled and not None, the payload last published on the /attributes topic is
\* made of the current latitude and longitude.
C15_PositionTopicInSync ==
    \A v \in DOMAIN garage :
        LET pos == garage[v].position
        IN (phase = "started" /\ connected /\ pending = NoEvent /\ lastPosition[v] # None
               /\ Present(pos.latitude) /\ Present(pos.longitude))
           => lastPosition[v] = PositionPayload(pos.latitude.value, pos.longitude.value)

\* C16: the document rendered for a device has no component that refers to the topic
\* of an attribute that is disabled, whatever the value and the unit of the attribute
\* and the commands are: for the attributes of a vehicle and for healthy and
\* connection_state of the connectors and plugins.
C16_DisabledAttributeNotRendered ==
    \A i \in 1..Len(attempts) :
        /\ \A v \in DOMAIN garage :
              attempts[i].device = garage[v].vin
              => LET fs == Facets(garage[v])
                 IN \A k \in 1..Len(fs) :
                       ~AttributeAt(garage[v], fs[k].path).enabled
                       => ~Mentions(attempts[i].doc, Topic(garage[v].vin, fs[k].rel))
        /\ attempts[i].device = car_connectivity_id
           => \A k \in 1..Len(Members) :
                 LET c == Members[k].member
                 IN /\ ~c.healthy.enabled
                       => ~Mentions(attempts[i].doc, MemberTopic(Members[k].kind, c, "healthy"))
                    /\ ~c.connection_state.enabled
                       => ~Mentions(attempts[i].doc,
                                    MemberTopic(Members[k].kind, c, "connection_state"))

\* C16 happens: the document of a vehicle whose odometer is disabled, with value and
\* unit, was rendered with the other 47 components and published.
C16_Witness ==
    /\ ~garage["v1"].odometer.enabled
    /\ garage["v1"].odometer.value = "12345"
    /\ garage["v1"].odometer.unit = "km"
    /\ \E i \in 1..Len(attempts) :
          /\ attempts[i].device = "WVW1234"
          /\ attempts[i].published
          /\ Len(attempts[i].doc.cmps) = 47
          /\ ~OdHas(attempts[i].doc.cmps, "WVW1234_odometer")

\* C17 as stated: the document rendered for a device has no component that refers to
\* the topic of an enumerated attribute whose value is None, also when the attribute
\* is enabled: for the enumerated attributes of a vehicle and for the connection_state
\* of every connector and plugin.
C17_EnumWithoutValueNotRendered ==
    \A i \in 1..Len(attempts) :
        /\ \A v \in DOMAIN garage :
              attempts[i].device = garage[v].vin
              => LET fs == Facets(garage[v])
                 IN \A k \in 1..Len(fs) :
                       (fs[k].enum /\ AttributeAt(garage[v], fs[k].path).value = None)
                       => ~Mentions(attempts[i].doc, Topic(garage[v].vin, fs[k].rel))
        /\ attempts[i].device = car_connectivity_id
           => \A k \in 1..Len(Members) :
                 LET c == Members[k].member
                 IN (c.connection_state.present /\ c.connection_state.value = None)
                    => ~Mentions(attempts[i].doc,
                                 MemberTopic(Members[k].kind, c, "connection_state"))

\* C18: every component of every published discovery document has the availability
\* clause with the connection-state topic of the MQTT plugin, "connected" as the
\* payload for available and "disconnected" as the payload for not available.
C18_EveryComponentHasAvailability ==
    \A i \in 1..Len(pubs) :
        \A k \in 1..Len(pubs[i].doc.cmps) :
            LET c == pubs[i].doc.cmps[k][2]
            IN /\ OdHas(c, "availability.topic")
               /\ OdGet(c, "availability.topic") = AvailabilityTopic
               /\ OdHas(c, "availability.payload_available")
               /\ OdGet(c, "availability.payload_available") = "connected"
               /\ OdHas(c, "availability.payload_not_available")
               /\ OdGet(c, "availability.payload_not_available") = "disconnected"

\* C18 happens: a connect published the document of the system device with the
\* connection_state component of a connector whose connection_state has no value, and
\* the document of a vehicle with 48 components.
C18_Witness ==
    /\ op.name = "connect"
    /\ connectors[1].connection_state.value = None
    /\ \E i, j \in 1..Len(pubs) :
          /\ OdHas(pubs[i].doc.cmps, car_connectivity_id \o "_volkswagen_connection_state")
          /\ Len(pubs[j].doc.cmps) = 48

\* C19 as stated: in every document rendered, every component is keyed by its
\* unique_id, and no two of the assignments to discovery_message['cmps'] of the
\* render, one per facet, have the same unique_id.
C19_UniqueIdsDistinct ==
    \A i \in 1..Len(attempts) :
        LET doc == attempts[i].doc
            Distinct(assigned) ==
                \A a, b \in 1..Len(assigned) : a # b => assigned[a] # assigned[b]
        IN /\ \A k \in 1..Len(doc.cmps) :
                 OdGet(doc.cmps[k][2], "unique_id") = doc.cmps[k][1]
           /\ \A v \in DOMAIN garage :
                 (attempts[i].device = garage[v].vin
                     /\ doc = Document(RenderVehicle(garage[v])))
                 => Distinct(RenderVehicle(garage[v]).assigned)
           /\ (attempts[i].device = car_connectivity_id
                  /\ doc = Document(RenderSystem(connectors, plugins)))
              => Distinct(RenderSystem(connectors, plugins).assigned)

C21_ValueChangedPublishesDerivedOnly ==
    [][(op'.name = "event" /\ op'.flags = {"VALUE_CHANGED"})
       => LET vin == garage[op'.el.vid].vin
              Derived ==
                  CASE op'.el.id = "position/longitude" ->
                          {Topic(vin, "position") \o "/attributes"}
                    [] op'.el.id = "charging/state" ->
                          {Topic(vin, "charging") \o "/binarystate"}
                    [] op'.el.id = "climatization/state" ->
                          {Topic(vin, "climatization") \o sfx :
                              sfx \in {"/binarystate", "/hvac_action", "/hvac_mode"}}
                    [] OTHER -> {}
          IN /\ attempts' = <<>>
             /\ homeassistant_discovery_hashes' = homeassistant_discovery_hashes
             /\ \A i \in 1..Len(pubs') : pubs'[i].doc = NoDoc /\ pubs'[i].topic \in Derived]_vars

\* C21 happens: with the cache filled, the charging state changed its value and the
\* notification published the binary state and nothing else.
C21_Witness ==
    /\ op.name = "event"
    /\ op.flags = {"VALUE_CHANGED"}
    /\ op.el.id = "charging/state"
    /\ DOMAIN homeassistant_discovery_hashes # {}
    /\ Len(pubs) = 1
    /\ pubs[1].topic = Topic("WVW1234", "charging") \o "/binarystate"
    /\ pubs[1].payload = "off"

\* C22 as stated: the handling of a notification while the client is not connected
\* calls publish for no vehicle document, for no system document and for no derived
\* topic.
C22_NoPublishWhileDisconnected ==
    (op.name = "event" /\ ~connected) => pubs = <<>>

\* C23: startup raises exactly when the entry 'mqtt' of the plugins is absent, is no
\* MqttPlugin or is None, and after a startup that raised no message callback, no
\* connect callback and no observer is registered and the plugin is not healthy.
C23_FailedStartupRegistersNothing ==
    LET MqttPluginFound ==
            \E i \in 1..Len(plugins) : plugins[i].id = "mqtt" /\ plugins[i].class = "MqttPlugin"
    IN /\ op.name = "startup" => (op.raised <=> ~MqttPluginFound)
       /\ (op.name = "startup" /\ op.raised)
          => /\ phase = "failed"
             /\ mqtt_plugin = None
             /\ ~callbacks.on_message /\ ~callbacks.on_connect /\ ~callbacks.observer
             /\ ~healthy
             /\ \A i \in 1..Len(plugins) :
                   plugins[i].id = "mqtt_homeassistant" => ~Present(plugins[i].healthy)
       /\ phase = "failed"
          => ~callbacks.on_message /\ ~callbacks.on_connect /\ ~callbacks.observer /\ ~healthy

\* C23 happens: startup raised with an entry 'mqtt' that is no MqttPlugin.
C23_Witness ==
    /\ op.name = "startup"
    /\ op.raised
    /\ \E i \in 1..Len(plugins) : plugins[i].id = "mqtt" /\ plugins[i].class = "Plugin"

\* C24 as stated: once shutdown has run, the message callback, the connect callback
\* and the observer are registered no more, and no notification, message or connect
\* makes the plugin publish.
C24_ShutdownRemovesRegistrations ==
    phase = "stopped"
    => /\ ~callbacks.on_message /\ ~callbacks.on_connect /\ ~callbacks.observer
       /\ op.name \in {"event", "message", "connect"} => (pubs = <<>> /\ attempts = <<>>)

\* C25: a render with mqtt_plugin None raises, publishes nothing and leaves the cache
\* as it is; a render that comes to an enabled vehicle without a VIN raises there,
\* with no attempt and no publish for that vehicle or anything after it and no new
\* cache entry for them; the handler that rendered ends with the error.
C25_RenderRaisesWithoutVinOrPlugin ==
    [][(\/ op'.name = "call"
        \/ op'.name = "event" /\ "ENABLED" \in op'.flags
        \/ op'.name = "connect" /\ op'.reason_code = 0 /\ callbacks.on_connect
        \/ op'.name = "message" /\ op'.topic = StatusTopic /\ Lower(op'.payload) = "online")
       => LET NoVin == {k \in 1..Len(VehicleOrder) :
                           garage[VehicleOrder[k]].enabled /\ garage[VehicleOrder[k]].vin = None}
              Before(k) == {homeassistant_prefix \o "/device/" \o garage[VehicleOrder[j]].vin
                                \o "/config" : j \in 1..(k - 1)}
          IN /\ mqtt_plugin = None
                => /\ op'.raised
                   /\ pubs' = <<>>
                   /\ attempts' = <<>>
                   /\ homeassistant_discovery_hashes' = homeassistant_discovery_hashes
             /\ (mqtt_plugin # None /\ NoVin # {})
                => \A k \in NoVin :
                      /\ op'.raised
                      /\ \A i \in 1..Len(pubs') : pubs'[i].topic \in Before(k)
                      /\ \A i \in 1..Len(attempts') :
                            attempts'[i].device \in {garage[VehicleOrder[j]].vin : j \in 1..(k - 1)}
                      /\ \A d \in {None, car_connectivity_id} :
                            /\ d \in DOMAIN homeassistant_discovery_hashes'
                               => d \in DOMAIN homeassistant_discovery_hashes
                            /\ d \in DOMAIN homeassistant_discovery_hashes
                               => homeassistant_discovery_hashes'[d] = homeassistant_discovery_hashes[d]]_vars

\* C25 happens: a connect published the document of the first vehicle and ended with
\* the error of the second vehicle, which has no VIN.
C25_Witness ==
    /\ op.name = "connect"
    /\ op.raised
    /\ garage["v2"].vin = None
    /\ Len(pubs) = 1
    /\ pubs[1].topic = homeassistant_prefix \o "/device/WVW1234/config"
    /\ car_connectivity_id \notin DOMAIN homeassistant_discovery_hashes

\* C26: no step takes a device id out of homeassistant_discovery_hashes, and an entry
\* is new or has a new value only after a step that published the document of that
\* device, with the hash the entry now holds.
C26_CacheGrowsWithPublishes ==
    [][/\ DOMAIN homeassistant_discovery_hashes \subseteq DOMAIN homeassistant_discovery_hashes'
       /\ \A k \in DOMAIN homeassistant_discovery_hashes' :
             (k \notin DOMAIN homeassistant_discovery_hashes
              \/ homeassistant_discovery_hashes'[k] # homeassistant_discovery_hashes[k])
             => \E i \in 1..Len(attempts') :
                   /\ attempts'[i].device = k
                   /\ attempts'[i].published
                   /\ attempts'[i].hash = homeassistant_discovery_hashes'[k]
                   /\ \E j \in 1..Len(pubs') : pubs'[j].doc = attempts'[i].doc]_vars

\* C26 happens: the cache holds the two vehicles and the system, and the last step
\* published a document of the first vehicle whose hash replaced another one.
C26_Witness ==
    /\ DOMAIN homeassistant_discovery_hashes = {"WVW1234", "TMB5678", car_connectivity_id}
    /\ \E i \in 1..Len(attempts) :
          /\ attempts[i].device = "WVW1234"
          /\ attempts[i].published
          /\ attempts[i].cached
          /\ attempts[i].cachedHash # attempts[i].hash
          /\ homeassistant_discovery_hashes["WVW1234"] = attempts[i].hash

\* C27: a notification handled while the client is not connected makes no publish
\* attempt for a vehicle and leaves the cache entries of the vehicles as they are; a
\* connect with reason code 0 publishes, for every enabled vehicle, the document
\* rendered from the data model as it is at the connect.
C27_DisconnectedChangePublishedOnConnect ==
    [][LET Vins == {garage[v].vin : v \in Range(VehicleOrder)}
       IN /\ (op'.name = "event" /\ ~connected')
             => /\ \A i \in 1..Len(attempts') : attempts'[i].device \notin Vins
                /\ \A i \in 1..Len(pubs'), d \in Vins :
                      pubs'[i].topic # homeassistant_prefix' \o "/device/" \o d \o "/config"
                /\ \A d \in Vins :
                      /\ (d \in DOMAIN homeassistant_discovery_hashes')
                          <=> (d \in DOMAIN homeassistant_discovery_hashes)
                      /\ d \in DOMAIN homeassistant_discovery_hashes
                         => homeassistant_discovery_hashes'[d] = homeassistant_discovery_hashes[d]
          /\ (op'.name = "connect" /\ op'.reason_code = 0 /\ callbacks.on_connect)
             => \A v \in Range(VehicleOrder) :
                   garage'[v].enabled
                   => \E i \in 1..Len(attempts') :
                         /\ attempts'[i].device = garage'[v].vin
                         /\ attempts'[i].published
                         /\ attempts'[i].doc = Document(RenderVehicle(garage'[v]))
                         /\ \E j \in 1..Len(pubs') :
                               /\ pubs'[j].doc = attempts'[i].doc
                               /\ pubs'[j].topic = homeassistant_prefix' \o "/device/"
                                                      \o garage'[v].vin \o "/config"]_vars

\* C27 happens: a connect published a document of the first vehicle that differs from
\* the one rendered before the connection was lost.
C27_Witness ==
    /\ op.name = "connect"
    /\ connected
    /\ \E i \in 1..Len(attempts) :
          /\ attempts[i].device = "WVW1234"
          /\ attempts[i].published
          /\ attempts[i].prev.doc # NoDoc
          /\ attempts[i].prev.doc # attempts[i].doc
          /\ lastDoc["WVW1234"] = attempts[i].doc

\* C28: the document published for a vehicle whose doors' lock_state is enabled and
\* has a value holds the lock <vin>_lock_unlock and not the binary sensor
\* <vin>_lock_state when 'lock-unlock' is a command of the doors, and the binary
\* sensor and not the lock when it is not.
C28_LockOrLockState ==
    \A i \in 1..Len(attempts), v \in DOMAIN garage :
        (attempts[i].device = garage[v].vin /\ Present(garage[v].doors.lock_state))
        => LET cmps == attempts[i].doc.cmps
               lock == garage[v].vin \o "_lock_unlock"
               sensor == garage[v].vin \o "_lock_state"
           IN IF "lock-unlock" \in garage[v].doors.commands.commands
              THEN /\ OdHas(cmps, lock) /\ ~OdHas(cmps, sensor)
                   /\ OdGet(OdGet(cmps, lock), "p") = "lock"
              ELSE /\ OdHas(cmps, sensor) /\ ~OdHas(cmps, lock)
                   /\ OdGet(OdGet(cmps, sensor), "p") = "binary_sensor"

\* C28 happens: the document of a vehicle whose doors have a lock state and no
\* command was published with the binary sensor.
C28_Witness ==
    /\ Present(garage["v1"].doors.lock_state)
    /\ garage["v1"].doors.commands.commands = {}
    /\ \E i \in 1..Len(attempts) :
          /\ attempts[i].device = garage["v1"].vin
          /\ attempts[i].published
          /\ OdHas(attempts[i].doc.cmps, "WVW1234_lock_state")

\* C29 as stated: a document that holds the switch of the window heating, the switch
\* of the charging or the climate entity of the climatization does not hold the
\* sensor of the same state (<vin>_window_heating_state, <vin>_charging_state,
\* <vin>_climatization_state).
C29_ActionableReplacesSensor ==
    \A i \in 1..Len(attempts), v \in DOMAIN garage :
        attempts[i].device = garage[v].vin
        => LET cmps == attempts[i].doc.cmps
               vin == garage[v].vin
           IN /\ OdHas(cmps, vin \o "_window_heating_start_stop")
                 => ~OdHas(cmps, vin \o "_window_heating_state")
              /\ OdHas(cmps, vin \o "_charging_start_stop")
                 => ~OdHas(cmps, vin \o "_charging_state")
              /\ OdHas(cmps, vin \o "_climatization_start_stop")
                 => ~OdHas(cmps, vin \o "_climatization_state")

\* C30 as stated: a connect that comes to render a vehicle whose climatization, its
\* settings and their target temperature are enabled, the target temperature with a
\* value, does not end with an error, and publishes the document of the vehicle.
C30_TargetTemperatureMergeNeverFails ==
    LET cl == garage["v1"].climatization
    IN (/\ op.name = "connect" /\ op.reason_code = 0 /\ callbacks.on_connect
        /\ garage["v1"].enabled /\ cl.enabled /\ cl.settings.enabled
        /\ cl.settings.target_temperature.enabled
        /\ cl.settings.target_temperature.value # None)
       => /\ ~op.raised
          /\ \E i \in 1..Len(attempts) : attempts[i].device = garage["v1"].vin

\* C31: a value received for the climatization start-stop command reaches the data
\* model as "stop" for "off", as "start" for "auto" and as it is for any other value,
\* whether one hook or several are attached; without a hook it is taken as it is.
C31_ModeToCommand ==
    op.name = "command"
    => LET translated == IF op.payload = "off" THEN "stop"
                         ELSE IF op.payload = "auto" THEN "start"
                         ELSE op.payload
       IN /\ hooks[op.el.vid] >= 1 => op.value = translated
          /\ hooks[op.el.vid] = 0 => op.value = op.payload
          /\ op.payload \in {"start", "stop"} => op.value = op.payload

\* C31 happens: "auto" passed two attached hooks and arrived as "start".
C31_Witness ==
    /\ op.name = "command"
    /\ hooks["v1"] = 2
    /\ op.payload = "auto"
    /\ op.value = "start"

\* C38 as stated: however often a vehicle is rendered, at most one hook is attached
\* to its climatization start-stop command.
C38_AtMostOneHook ==
    \A v \in DOMAIN hooks : hooks[v] <= 1

\* C32: every publish to a derived topic comes after the run has registered exactly
\* that topic, with a filter, not subscribed and not writeable, and the topic has no
\* other registration; a run registers no derived topic and publishes to none whose
\* source attribute is disabled or has no value (for the position: latitude and
\* longitude).
C32_DerivedTopicRegisteredBeforePublish ==
    [][/\ \A i \in 1..Len(pubs') :
             pubs'[i].doc = NoDoc
             => /\ pubs'[i].registered
                /\ \A t \in topics' :
                      t.topic = pubs'[i].topic
                      => t = [topic |-> pubs'[i].topic, with_filter |-> TRUE,
                              subscribe |-> FALSE, writeable |-> FALSE]
                /\ \E t \in topics' : t.topic = pubs'[i].topic
       /\ op'.name \in {"event", "connect", "message"}
          => \A v \in DOMAIN garage' :
                LET veh == garage'[v]
                    Quiet(ts) == \A t \in ts :
                                    /\ \A i \in 1..Len(pubs') : pubs'[i].topic # t
                                    /\ \A x \in topics' : x.topic = t => x \in topics
                IN /\ ~(Present(veh.position.latitude) /\ Present(veh.position.longitude))
                      => Quiet({Topic(veh.vin, "position") \o "/attributes"})
                   /\ ~Present(veh.charging.state)
                      => Quiet({Topic(veh.vin, "charging") \o "/binarystate"})
                   /\ ~Present(veh.climatization.state)
                      => Quiet({Topic(veh.vin, "climatization") \o "/binarystate",
                                Topic(veh.vin, "climatization") \o "/hvac_action",
                                Topic(veh.vin, "climatization") \o "/hvac_mode"})]_vars

\* C32 happens: a connect published the HVAC mode of the first vehicle to a topic it
\* had registered, and neither registered nor published the charging binary state,
\* the charging state being disabled.
C32_Witness ==
    /\ op.name = "connect"
    /\ ~garage["v1"].charging.state.enabled
    /\ \E i \in 1..Len(pubs) :
          /\ pubs[i].topic = Topic("WVW1234", "climatization") \o "/hvac_mode"
          /\ pubs[i].registered
    /\ \A t \in topics : t.topic # Topic("WVW1234", "charging") \o "/binarystate"

\* C33: a connect callback with a reason code other than 0 subscribes to nothing,
\* registers no topic, makes no publish attempt, publishes nothing and leaves the
\* cache, the hooks and the documents last published as they are.
C33_FailedConnectChangesNothing ==
    [][(op'.name = "connect" /\ op'.reason_code # 0)
       => /\ subscriptions' = subscriptions
          /\ topics' = topics
          /\ pubs' = <<>>
          /\ attempts' = <<>>
          /\ homeassistant_discovery_hashes' = homeassistant_discovery_hashes
          /\ hooks' = hooks
          /\ lastDoc' = lastDoc
          /\ lastRender' = lastRender]_vars

\* C33 happens: the connect callback ran with reason code 5 on a started plugin that
\* had published before and whose first vehicle has an odometer to render.
C33_Witness ==
    /\ op.name = "connect"
    /\ op.reason_code = 5
    /\ callbacks.on_connect
    /\ ~connected
    /\ pubs = <<>>
    /\ "WVW1234" \in DOMAIN homeassistant_discovery_hashes
    /\ Present(garage["v1"].odometer)

\* C35: with the handlers run one after the other, every device id in the cache has
\* had a document published, and its cache entry is the hash of the document handed
\* to publish last for it.
C35_CacheIsHashOfLastPublished ==
    \A d \in DOMAIN homeassistant_discovery_hashes :
        /\ d \in DOMAIN lastDoc
        /\ lastDoc[d] # NoDoc
        /\ homeassistant_discovery_hashes[d] = PyHash(Dumps(lastDoc[d]))

\* C35 happens: the first vehicle has had a second, different document published,
\* with another hash than the one the cache held before.
C35_Witness ==
    /\ "WVW1234" \in DOMAIN homeassistant_discovery_hashes
    /\ \E i \in 1..Len(attempts) :
          /\ attempts[i].device = "WVW1234"
          /\ attempts[i].published
          /\ attempts[i].cached
          /\ attempts[i].cachedHash # attempts[i].hash
          /\ attempts[i].prev.doc # attempts[i].doc
          /\ lastDoc["WVW1234"] = attempts[i].doc
          /\ homeassistant_discovery_hashes["WVW1234"] = PyHash(Dumps(attempts[i].doc))

C37_RenderFailureIsContained ==
    (/\ op.name = "connect" /\ op.reason_code = 0 /\ callbacks.on_connect
     /\ \E v \in DOMAIN garage : garage[v].enabled /\ garage[v].vin = None)
    => /\ \E i \in 1..Len(attempts) :
             attempts[i].device = car_connectivity_id /\ attempts[i].published
       /\ \E i \in 1..Len(pubs) :
             pubs[i].topic = Topic("WVW1234", "charging") \o "/binarystate"

\* C39 as stated: a connect with reason code 0 on a started plugin, every vehicle
\* having a VIN, renders every enabled vehicle without an error, whatever is enabled,
\* has a value, has a unit or is available as a command.
C39_RenderNeverRaises ==
    (/\ op.name = "connect" /\ op.reason_code = 0 /\ callbacks.on_connect
     /\ mqtt_plugin # None
     /\ \A v \in DOMAIN garage : garage[v].vin # None)
    => /\ ~op.raised
       /\ \A v \in DOMAIN garage :
             garage[v].enabled => \E i \in 1..Len(attempts) : attempts[i].device = garage[v].vin

\* C34: with a handler on the thread of the MQTT client and one on the thread of the
\* data model interleaved, the cache entry of a device is the hash written by the
\* latest render of the device, whichever document was handed to publish last, and
\* a non-forced attempt is suppressed exactly when its hash is the cache entry.  The
\* state the claim speaks of, a suppressed attempt whose document and hash are not
\* those of the document published last, is C34_Witness.
C34_CacheFollowsLastStore ==
    /\ \A d \in DOMAIN homeassistant_discovery_hashes :
          /\ d \in DOMAIN lastRender
          /\ homeassistant_discovery_hashes[d] = lastRender[d].hash
    /\ \A i \in 1..Len(attempts) :
          ~attempts[i].force
          => (attempts[i].published
              <=> (~attempts[i].cached \/ attempts[i].cachedHash # attempts[i].hash))

\* C34 happens: after a forced handler wrote its hash, a notification wrote another
\* and published, and the forced handler published its older document, a further
\* notification rendered the vehicle as the data model has it, found its hash in the
\* cache and published nothing, while the document published last is the older one,
\* with another hash, and no handler has a publish of the vehicle left to do.
C34_Witness ==
    /\ op.name = "store"
    /\ op.payload = "model"
    /\ running["transport"] = Idle
    /\ running["model"].held = Idle.held
    /\ \E i \in 1..Len(attempts) :
          /\ attempts[i].device = "WVW1234"
          /\ ~attempts[i].force
          /\ ~attempts[i].published
          /\ attempts[i].doc = Document(RenderVehicle(garage["v1"]))
          /\ attempts[i].doc # lastDoc["WVW1234"]
          /\ attempts[i].hash = homeassistant_discovery_hashes["WVW1234"]
          /\ PyHash(Dumps(lastDoc["WVW1234"])) # homeassistant_discovery_hashes["WVW1234"]

====
